---- MODULE Spec2Model ----
(***************************************************************************)
(* Booker agent-demo: the budget ledger (CostController), the governance   *)
(* input pipeline (GovernanceCoordinator.check_input), the orchestrator    *)
(* (AgentOrchestrator.process_message) and the bounded tool-use loop of    *)
(* the specialist agents (ArtistDiscoveryAgent / BookingAdvisorAgent).     *)
(***************************************************************************)
EXTENDS Integers, Sequences, FiniteSets, TLC

(* ---------------------------- bounds ----------------------------------- *)
\* number of reservation ids (uuid4 values) the ledger hands out
MaxRes == 2
\* largest token amount passed to one ledger call
MaxAmount == 1
\* length of the sequences of CostController calls a client makes
MaxCalls == 3
MaxTraceOps == 2
MaxMessages == 2
conversation_history_limit == 1

\* default of get_recent_traces(limit)
DefaultTraceLimit == 10
\* Settings.max_agent_iterations, scaled down (MAX_AGENT_ITERATIONS, default 10)
max_agent_iterations == 2
max_execution_seconds == 1
\* scaled-down budget configuration (constructor arguments of CostController)
global_daily_tokens == 2
per_session_tokens == 1
per_user_daily_tokens == 1

(* ---------------------------- domains ---------------------------------- *)
Sessions == {"s1", "s2"}
\* Python None / "" for user_id and agent_name (both falsy)
NoUser == "none"
Users == {"u1"}
UserArgs == Users \cup {NoUser}
NoAgent == "none"
Agents == {"artist_discovery"}
AgentArgs == Agents \cup {NoAgent}
ResIds == 1..MaxRes
Amounts == 0..MaxAmount
\* what the two pyrate-limiter buckets answer to try_acquire at this moment
RateOutcomes == {"ok", "request_rate_full", "token_rate_full"}
\* the requests in flight, each driven by its own client thread
Reqs == {"q1", "q2"}
\* token counts an AgentResponse can report
TokenCounts == 1..MaxAmount

VARIABLES
    enabled,          \* CostController.enabled
    enforce,          \* CostController.enforce
    global_usage,     \* CostController.global_usage
    session_usage,    \* CostController.session_usage   (defaultdict(int))
    user_usage,       \* CostController.user_usage      (defaultdict(int))
    agent_usage,      \* CostController.agent_usage     (defaultdict(int))
    reservations,     \* CostController.reservations: id -> TokenReservation
    next_id,          \* the next fresh uuid4 of reserve_tokens
    committed_actual, \* history: id -> actual_tokens of the first commit_usage call on it
    last,             \* the most recent CostController call: operation, id, what it found,
                      \* and for reserve_tokens its scope and the counters before it
    ncalls,           \* number of CostController calls made so far
    gov_enabled,      \* GovernanceCoordinator.enabled
    req_sid,          \* request -> the session_id its calls pass
    req_uid,          \* request -> the user_id its calls pass (NoUser for None)
    ci_pc,            \* request -> position inside GovernanceCoordinator.check_input
    ci_est,           \* request -> estimated_tokens of its check_input call
    ci_res,           \* request -> reservation_id held by its check_input call (0: none)
    ci_log,           \* history: request -> the stages its check_input call ran, with outcome
    pm_pc,            \* request -> position inside AgentOrchestrator.process_message
    conversation,     \* ConversationMemory._conversations: session -> roles of its messages
    trace_state,      \* request -> state of the "request" span of tracer.trace_request
    metrics,          \* MetricsCollector._sessions: session -> SessionMetrics
    pm_result,        \* request -> what its process_message call handed to the caller
    spans,            \* the spans started so far, in start order (index = span id)
    current_span,     \* request -> the current span of its context (0: none)
    trace_calls,      \* history: request -> tracer calls made while its trace was open
    mc_pc,            \* caller -> position inside MetricsCollector.record_agent_call
    mc_lock,          \* MetricsCollector._lock: the caller holding it, or NoHolder
    mc_args,          \* caller -> arguments of its record_agent_call call
    mc_local,         \* caller -> the counter values it has read and not yet written back
    mc_done,          \* history: session -> the record_agent_call calls completed on it
    cv_last,          \* the most recent direct call on the conversation memory
    lp_agent,         \* BaseAgent.name of the agent whose process() runs
    lp_pc,            \* position inside process()
    iteration,        \* the loop variable of "for iteration in range(...)"
    messages,         \* the local list "messages"
    response,         \* content blocks of the latest model response
    tool_calls,       \* the local list "tool_calls"
    tool_results,     \* the local list "tool_results"
    total_tokens_in,  \* the local accumulator total_tokens_in
    total_tokens_out, \* the local accumulator total_tokens_out
    llm_calls,        \* number of client.messages.create calls issued
    last_request,     \* the message list passed to the latest model call
    tool_log,         \* the execute_tool calls made: id, name, result, model call
    llm_log,          \* the model responses received: content blocks and usage
    events,           \* names of the events recorded on the current span
    lp_error,         \* what raised out of process(): "none", "llm" or "tool"
    lp_result,        \* the AgentResponse returned by process()
    elapsed,          \* whole seconds of wall-clock time since process() was entered
    call_times        \* history: the value of elapsed at each model call issued

ledgerVars == <<enabled, enforce, global_usage, session_usage, user_usage,
                agent_usage, reservations, next_id, committed_actual, last, ncalls>>

govVars == <<gov_enabled, req_sid, req_uid, ci_pc, ci_est, ci_res, ci_log>>

mcVars == <<mc_pc, mc_lock, mc_args, mc_local, mc_done>>
orchVars == <<pm_pc, conversation, trace_state, metrics, pm_result, spans, current_span,
             trace_calls, mcVars, cv_last>>

loopVars == <<lp_agent, lp_pc, iteration, messages, response, tool_calls,
              tool_results, total_tokens_in, total_tokens_out, llm_calls,
              last_request, tool_log, llm_log, events, lp_error, lp_result,
              elapsed, call_times>>

vars == <<ledgerVars, govVars, orchVars, loopVars>>

(* ---------------------------- helpers ---------------------------------- *)
\* defaultdict(int).__getitem__ read without the insertion side effect / dict.get(k, 0)
Get(d, k) == IF k \in DOMAIN d THEN d[k] ELSE 0

\* d[k] += v on a defaultdict(int): creates the key when it is missing
DictAdd(d, k, v) ==
    [x \in (DOMAIN d) \cup {k} |-> IF x = k THEN Get(d, k) + v ELSE d[x]]

\* d[k] read on a defaultdict(int): creates the key with 0 when it is missing
DictTouch(d, k) == DictAdd(d, k, 0)

\* dict.pop(k, None)
DictPop(d, k) == [x \in (DOMAIN d) \ {k} |-> d[x]]

RECURSIVE SumOver(_, _)
SumOver(f, S) ==
    IF S = {} THEN 0
    ELSE LET x == CHOOSE y \in S : TRUE IN f[x] + SumOver(f, S \ {x})

\* process() has not returned
NoResult == [returned |-> FALSE]

\* counter values noted before a call, for the calls that note none
NoPre == [global |-> 0, session |-> 0, user |-> 0]

NoCall == [op |-> "none", rid |-> 0, found |-> FALSE, settled |-> FALSE, verdict |-> "ok",
           sid |-> "none", uid |-> "none", pre |-> NoPre, amount |-> 0, acquires |-> 0]

(* ---------------------------- CostController --------------------------- *)
\* TokenReservation.__init__
TokenReservation(amount) == [amount |-> amount, committed |-> FALSE]

\* the try block of check_budget: request_rate_limiter.try_acquire, then
\* global_rate_limiter.try_acquire; the first full bucket raises
TryAcquire(request_full, token_full) ==
    IF request_full THEN "request_rate_full"
    ELSE IF token_full THEN "token_rate_full"
    ELSE "ok"

\* check_budget with ">=" in place of ">" in the three cumulative tests
BudgetVerdict_Exclusive(estimated_tokens, session_id, user_id, rate) ==
    IF ~enabled THEN "ok"
    ELSE IF enforce /\ global_usage + estimated_tokens >= global_daily_tokens
        THEN "global"
    ELSE IF enforce /\ Get(session_usage, session_id) + estimated_tokens >= per_session_tokens
        THEN "session"
    ELSE IF enforce /\ user_id # NoUser
                    /\ Get(user_usage, user_id) + estimated_tokens >= per_user_daily_tokens
        THEN "user"
    ELSE IF enforce /\ rate # "ok"
        THEN rate
    ELSE "ok"

\* check_budget with the session test placed before the global test
BudgetVerdict_SessionFirst(estimated_tokens, session_id, user_id, rate) ==
    IF ~enabled THEN "ok"
    ELSE IF enforce /\ Get(session_usage, session_id) + estimated_tokens > per_session_tokens
        THEN "session"
    ELSE IF enforce /\ global_usage + estimated_tokens > global_daily_tokens
        THEN "global"
    ELSE IF enforce /\ user_id # NoUser
                    /\ Get(user_usage, user_id) + estimated_tokens > per_user_daily_tokens
        THEN "user"
    ELSE IF enforce /\ rate # "ok"
        THEN rate
    ELSE "ok"

\* check_budget that denies on a full rate limiter whatever enforce says
BudgetVerdict_RateAlwaysEnforced(estimated_tokens, session_id, user_id, rate) ==
    IF ~enabled THEN "ok"
    ELSE IF enforce /\ global_usage + estimated_tokens > global_daily_tokens
        THEN "global"
    ELSE IF enforce /\ Get(session_usage, session_id) + estimated_tokens > per_session_tokens
        THEN "session"
    ELSE IF enforce /\ user_id # NoUser
                    /\ Get(user_usage, user_id) + estimated_tokens > per_user_daily_tokens
        THEN "user"
    ELSE IF rate # "ok"
        THEN rate
    ELSE "ok"

\* the verdict of check_budget: "ok" or the first scope that denies
BudgetVerdict(estimated_tokens, session_id, user_id, rate) ==
    IF ~enabled THEN "ok"
    ELSE IF enforce /\ global_usage + estimated_tokens > global_daily_tokens
        THEN "global"
    ELSE IF enforce /\ Get(session_usage, session_id) + estimated_tokens > per_session_tokens
        THEN "session"
    ELSE IF enforce /\ user_id # NoUser
                    /\ Get(user_usage, user_id) + estimated_tokens > per_user_daily_tokens
        THEN "user"
    ELSE IF enforce /\ rate # "ok"
        THEN rate
    ELSE "ok"

\* the number of try_acquire calls one check_budget call makes: none when
\* disabled or when a cap denied first, one when the request limiter is
\* full, else two
LimiterCalls(estimated_tokens, session_id, user_id, request_full) ==
    IF ~enabled THEN 0
    ELSE IF BudgetVerdict(estimated_tokens, session_id, user_id, "ok") # "ok" THEN 0
    ELSE IF request_full THEN 1
    ELSE 2

\* the dictionary keys check_budget creates by reading the defaultdicts
CheckBudgetEffect(estimated_tokens, session_id, user_id, rate) ==
    LET v == BudgetVerdict(estimated_tokens, session_id, user_id, rate)
        readsSession == enabled /\ v # "global"
        readsUser == enabled /\ v \notin {"global", "session"} /\ user_id # NoUser
    IN  /\ session_usage' = IF readsSession THEN DictTouch(session_usage, session_id)
                            ELSE session_usage
        /\ user_usage' = IF readsUser THEN DictTouch(user_usage, user_id)
                         ELSE user_usage
        /\ UNCHANGED <<global_usage, agent_usage, reservations, next_id>>

\* reserve_tokens recording the reservation without charging the counters
ReserveEffect_NoCharge(amount, session_id, user_id) ==
    /\ reservations' = [x \in (DOMAIN reservations) \cup {next_id} |->
                           IF x = next_id THEN TokenReservation(amount)
                           ELSE reservations[x]]
    /\ next_id' = next_id + 1
    /\ session_usage' = DictTouch(session_usage, session_id)
    /\ UNCHANGED <<global_usage, user_usage, agent_usage>>

ReserveEffect(amount, session_id, user_id) ==
    /\ reservations' = [x \in (DOMAIN reservations) \cup {next_id} |->
                           IF x = next_id THEN TokenReservation(amount)
                           ELSE reservations[x]]
    /\ next_id' = next_id + 1
    /\ global_usage' = global_usage + amount
    /\ session_usage' = DictAdd(session_usage, session_id, amount)
    /\ user_usage' = IF user_id # NoUser THEN DictAdd(user_usage, user_id, amount)
                     ELSE user_usage
    /\ UNCHANGED agent_usage

\* commit_usage as it would be if an unknown id were rejected without tracking
CommitEffect_RejectUnknown(reservation_id, actual_tokens, session_id, user_id, agent_name) ==
    IF reservation_id \notin DOMAIN reservations
    THEN UNCHANGED <<global_usage, session_usage, user_usage, agent_usage,
                     reservations, next_id>>
    ELSE LET difference == actual_tokens - reservations[reservation_id].amount IN
        /\ global_usage' = global_usage + difference
        /\ session_usage' = DictAdd(session_usage, session_id, difference)
        /\ user_usage' = IF user_id # NoUser
                         THEN DictAdd(user_usage, user_id, difference)
                         ELSE user_usage
        /\ agent_usage' = IF agent_name # NoAgent
                          THEN DictAdd(agent_usage, agent_name, actual_tokens)
                          ELSE agent_usage
        /\ reservations' = [reservations EXCEPT ![reservation_id].committed = TRUE]
        /\ UNCHANGED next_id

\* commit_usage that charges the agent scope with the difference as well
CommitEffect_AgentDelta(reservation_id, actual_tokens, session_id, user_id, agent_name) ==
    LET difference == IF reservation_id \in DOMAIN reservations
                      THEN actual_tokens - reservations[reservation_id].amount
                      ELSE actual_tokens
    IN /\ global_usage' = global_usage + difference
       /\ session_usage' = DictAdd(session_usage, session_id, difference)
       /\ user_usage' = IF user_id # NoUser
                        THEN DictAdd(user_usage, user_id, difference)
                        ELSE user_usage
       /\ agent_usage' = IF agent_name # NoAgent
                         THEN DictAdd(agent_usage, agent_name, difference)
                         ELSE agent_usage
       /\ reservations' = IF reservation_id \in DOMAIN reservations
                          THEN [reservations EXCEPT ![reservation_id].committed = TRUE]
                          ELSE reservations
       /\ UNCHANGED next_id

CommitEffect(reservation_id, actual_tokens, session_id, user_id, agent_name) ==
    IF reservation_id \notin DOMAIN reservations
    THEN \* "Reservation not found": still track usage
        /\ global_usage' = global_usage + actual_tokens
        /\ session_usage' = DictAdd(session_usage, session_id, actual_tokens)
        /\ user_usage' = IF user_id # NoUser
                         THEN DictAdd(user_usage, user_id, actual_tokens)
                         ELSE user_usage
        /\ agent_usage' = IF agent_name # NoAgent
                          THEN DictAdd(agent_usage, agent_name, actual_tokens)
                          ELSE agent_usage
        /\ UNCHANGED <<reservations, next_id>>
    ELSE LET difference == actual_tokens - reservations[reservation_id].amount IN
        /\ global_usage' = global_usage + difference
        /\ session_usage' = DictAdd(session_usage, session_id, difference)
        /\ user_usage' = IF user_id # NoUser
                         THEN DictAdd(user_usage, user_id, difference)
                         ELSE user_usage
        /\ agent_usage' = IF agent_name # NoAgent
                          THEN DictAdd(agent_usage, agent_name, actual_tokens)
                          ELSE agent_usage
        /\ reservations' = [reservations EXCEPT ![reservation_id].committed = TRUE]
        /\ UNCHANGED next_id

\* release_reservation that drops the record and leaves the amount charged
ReleaseEffect_KeepsCharge(reservation_id, session_id, user_id) ==
    /\ reservations' = DictPop(reservations, reservation_id)
    /\ UNCHANGED <<global_usage, session_usage, user_usage, agent_usage, next_id>>

\* release_reservation without the "not reservation.committed" test
ReleaseEffect_IgnoresCommitted(reservation_id, session_id, user_id) ==
    /\ reservations' = DictPop(reservations, reservation_id)
    /\ IF reservation_id \in DOMAIN reservations
       THEN LET amount == reservations[reservation_id].amount IN
            /\ global_usage' = global_usage - amount
            /\ session_usage' = DictAdd(session_usage, session_id, 0 - amount)
            /\ user_usage' = IF user_id # NoUser
                             THEN DictAdd(user_usage, user_id, 0 - amount)
                             ELSE user_usage
       ELSE UNCHANGED <<global_usage, session_usage, user_usage>>
    /\ UNCHANGED <<agent_usage, next_id>>

ReleaseEffect(reservation_id, session_id, user_id) ==
    /\ reservations' = DictPop(reservations, reservation_id)
    /\ IF reservation_id \in DOMAIN reservations
          /\ ~reservations[reservation_id].committed
       THEN LET amount == reservations[reservation_id].amount IN
            /\ global_usage' = global_usage - amount
            /\ session_usage' = DictAdd(session_usage, session_id, 0 - amount)
            /\ user_usage' = IF user_id # NoUser
                             THEN DictAdd(user_usage, user_id, 0 - amount)
                             ELSE user_usage
       ELSE UNCHANGED <<global_usage, session_usage, user_usage>>
    /\ UNCHANGED <<agent_usage, next_id>>

\* a client can only pass a reservation id that reserve_tokens returned earlier
Issued(reservation_id) == reservation_id < next_id

\* the call settles the reservation that the call just before it made, and
\* passes the session and user that reserve_tokens call was given
SettlesLastReserve(reservation_id, session_id, user_id) ==
    /\ last.op = "reserve"
    /\ last.rid = reservation_id
    /\ last.sid = session_id
    /\ last.uid = user_id

\* one more call of the client's bounded call sequence
CountCall ==
    /\ ncalls < MaxCalls
    /\ ncalls' = ncalls + 1

(* --- the public calls, each one atomic, made in any order by a client --- *)
\* the caller notes the arguments it passed; request_full and token_full are
\* the state of the two rate-limiter buckets at the moment of the call
check_budget(estimated_tokens, session_id, user_id, request_full, token_full) ==
    LET rate == TryAcquire(request_full, token_full) IN
    /\ CheckBudgetEffect(estimated_tokens, session_id, user_id, rate)
    /\ CountCall
    /\ last' = [op |-> "check_budget", rid |-> 0, found |-> FALSE, settled |-> FALSE,
                verdict |-> BudgetVerdict(estimated_tokens, session_id, user_id, rate),
                sid |-> session_id, uid |-> user_id, pre |-> NoPre,
                amount |-> estimated_tokens,
                acquires |-> LimiterCalls(estimated_tokens, session_id, user_id,
                                          request_full)]
    /\ UNCHANGED <<enabled, enforce, committed_actual, govVars, orchVars, loopVars>>

reserve_tokens(amount, session_id, user_id) ==
    /\ next_id \in ResIds
    /\ ReserveEffect(amount, session_id, user_id)
    /\ CountCall
    /\ last' = [op |-> "reserve", rid |-> next_id, found |-> FALSE, settled |-> FALSE,
                verdict |-> "ok", sid |-> session_id, uid |-> user_id,
                pre |-> [global |-> global_usage,
                         session |-> Get(session_usage, session_id),
                         user |-> Get(user_usage, user_id)],
                amount |-> amount, acquires |-> 0]
    /\ UNCHANGED <<enabled, enforce, committed_actual, govVars, orchVars, loopVars>>

commit_usage(reservation_id, actual_tokens, session_id, user_id, agent_name) ==
    /\ Issued(reservation_id)
    /\ CommitEffect(reservation_id, actual_tokens, session_id, user_id, agent_name)
    /\ CountCall
    /\ last' = [op |-> "commit", rid |-> reservation_id,
                found |-> reservation_id \in DOMAIN reservations,
                settled |-> reservation_id \in DOMAIN committed_actual,
                verdict |-> "ok",
                sid |-> IF SettlesLastReserve(reservation_id, session_id, user_id)
                        THEN last.sid ELSE "none",
                uid |-> IF SettlesLastReserve(reservation_id, session_id, user_id)
                        THEN last.uid ELSE "none",
                pre |-> IF SettlesLastReserve(reservation_id, session_id, user_id)
                        THEN last.pre ELSE NoPre,
                amount |-> IF SettlesLastReserve(reservation_id, session_id, user_id)
                           THEN last.amount ELSE 0,
                acquires |-> 0]
    /\ committed_actual' =
           IF reservation_id \in DOMAIN committed_actual THEN committed_actual
           ELSE [x \in (DOMAIN committed_actual) \cup {reservation_id} |->
                    IF x = reservation_id THEN actual_tokens ELSE committed_actual[x]]
    /\ UNCHANGED <<enabled, enforce, govVars, orchVars, loopVars>>

release_reservation(reservation_id, session_id, user_id) ==
    /\ Issued(reservation_id)
    /\ ReleaseEffect(reservation_id, session_id, user_id)
    /\ CountCall
    /\ last' = [op |-> "release", rid |-> reservation_id,
                found |-> reservation_id \in DOMAIN reservations, settled |-> FALSE,
                verdict |-> "ok",
                sid |-> IF SettlesLastReserve(reservation_id, session_id, user_id)
                        THEN last.sid ELSE "none",
                uid |-> IF SettlesLastReserve(reservation_id, session_id, user_id)
                        THEN last.uid ELSE "none",
                pre |-> IF SettlesLastReserve(reservation_id, session_id, user_id)
                        THEN last.pre ELSE NoPre,
                amount |-> IF SettlesLastReserve(reservation_id, session_id, user_id)
                           THEN last.amount ELSE 0,
                acquires |-> 0]
    /\ UNCHANGED <<enabled, enforce, committed_actual, govVars, orchVars, loopVars>>

\* CostController.__init__
LedgerInit ==
    /\ enabled = TRUE
    /\ enforce = TRUE
    /\ global_usage = 0
    /\ session_usage = <<>>
    /\ user_usage = <<>>
    /\ agent_usage = <<>>
    /\ reservations = <<>>
    /\ next_id = 1
    /\ committed_actual = <<>>
    /\ last = NoCall
    /\ ncalls = 0

\* GovernanceCoordinator.__init__, no check_input call made yet
\* no check_input call has started
GovIdle ==
    /\ ci_pc = [q \in Reqs |-> "idle"]
    /\ ci_est = [q \in Reqs |-> 0]
    /\ ci_res = [q \in Reqs |-> 0]
    /\ ci_log = [q \in Reqs |-> <<>>]

GovInit ==
    /\ gov_enabled = TRUE
    /\ GovIdle

\* AgentOrchestrator.__init__ and the module-level tracer and metrics
\* process_message has not returned
NoReturn == [returned |-> FALSE, raised |-> FALSE, success |-> FALSE,
             tokens_in |-> 0, tokens_out |-> 0, tokens_total |-> 0]

NoTraceCalls == [record_event |-> 0, record_tokens |-> 0, timed_event |-> 0,
                 outside |-> 0, issued |-> 0]

\* AgentMetrics(agent_name) as created on first use
NewAgentMetrics ==
    [total_calls |-> 0, total_tokens_in |-> 0, total_tokens_out |-> 0, error_count |-> 0]

\* SessionMetrics(session_id) as created on first use
NewSessionMetrics ==
    [total_requests |-> 0, total_tokens_in |-> 0, total_tokens_out |-> 0,
     agent_metrics |-> <<>>]

NoHolder == "none"

NoConvCall == [op |-> "none", sid |-> "none", given |-> FALSE, limit |-> 0,
               before |-> <<>>, result |-> <<>>]

NoMetricArgs == [session_id |-> "none", agent_name |-> "none", tokens_in |-> 0,
                 tokens_out |-> 0, error |-> FALSE]

OrchInit ==
    /\ pm_pc = [q \in Reqs |-> "idle"]
    /\ conversation = <<>>
    /\ trace_state = [q \in Reqs |-> "none"]
    /\ metrics = <<>>
    /\ pm_result = [q \in Reqs |-> NoReturn]
    /\ spans = <<>>
    /\ current_span = [q \in Reqs |-> 0]
    /\ trace_calls = [q \in Reqs |-> NoTraceCalls]
    /\ mc_pc = [q \in Reqs |-> "idle"]
    /\ mc_lock = NoHolder
    /\ mc_args = [q \in Reqs |-> NoMetricArgs]
    /\ mc_local = [q \in Reqs |-> NewSessionMetrics]
    /\ mc_done = <<>>
    /\ cv_last = NoConvCall

\* no agent run started
LoopIdle ==
    /\ lp_pc = "idle"
    /\ iteration = 0
    /\ messages = <<>>
    /\ response = <<>>
    /\ tool_calls = <<>>
    /\ tool_results = <<>>
    /\ total_tokens_in = 0
    /\ total_tokens_out = 0
    /\ llm_calls = 0
    /\ last_request = <<>>
    /\ tool_log = <<>>
    /\ llm_log = <<>>
    /\ events = <<>>
    /\ lp_error = "none"
    /\ lp_result = NoResult
    /\ elapsed = 0
    /\ call_times = <<>>

Init ==
    /\ LedgerInit
    /\ GovInit
    /\ OrchInit
    /\ req_sid = [q \in Reqs |-> "s1"]
    /\ req_uid = [q \in Reqs |-> NoUser]
    /\ lp_agent = "artist_discovery"
    /\ LoopIdle

CallCheckBudget ==
    \E e \in Amounts, s \in Sessions, u \in UserArgs,
       request_full \in BOOLEAN, token_full \in BOOLEAN :
        check_budget(e, s, u, request_full, token_full)

CallReserve ==
    \E a \in Amounts, s \in Sessions, u \in UserArgs : reserve_tokens(a, s, u)

CallCommit ==
    \E r \in ResIds, a \in Amounts, s \in Sessions, u \in UserArgs, g \in AgentArgs :
        commit_usage(r, a, s, u, g)

CallRelease ==
    \E r \in ResIds, s \in Sessions, u \in UserArgs : release_reservation(r, s, u)

\* a client settling reservations: reserve, commit and release in any order
Next ==
    \/ CallReserve
    \/ CallCommit
    \/ CallRelease

Spec == Init /\ [][Next]_vars

(* ======================= properties of the ledger ====================== *)
\* reservations that are reserved and neither committed nor released
Outstanding == {r \in DOMAIN reservations : ~reservations[r].committed}

OutstandingAmount == [r \in Outstanding |-> reservations[r].amount]

\* an id handed out earlier whose record has been removed by release_reservation
Released(r) == Issued(r) /\ r \notin DOMAIN reservations

\* the values of the global, session and user counters are the same after the step
CountersUnchanged ==
    /\ global_usage' = global_usage
    /\ \A s \in Sessions : Get(session_usage', s) = Get(session_usage, s)
    /\ \A u \in Users : Get(user_usage', u) = Get(user_usage, u)

\* C1: after any sequence of reserve/commit/release calls, global_usage equals
\* the sum of actual_tokens over committed reservations plus the sum of the
\* amounts of the reservations still outstanding.
LedgerBalanced ==
    global_usage = SumOver(committed_actual, DOMAIN committed_actual)
                   + SumOver(OutstandingAmount, Outstanding)

\* C2: a second commit_usage on an already committed id, and a second
\* release_reservation on an already released id, leave the global, session
\* and user counters as they were.
NoDoubleSettlement ==
    [][ ( \/ (last'.op = "commit" /\ last'.found /\ last'.settled)
          \/ (last'.op = "release" /\ ~last'.found) )
        => CountersUnchanged ]_vars

CountersNonNegative ==
    /\ global_usage >= 0
    /\ \A s \in DOMAIN session_usage : session_usage[s] >= 0
    /\ \A u \in DOMAIN user_usage : user_usage[u] >= 0

(* ================== GovernanceCoordinator.check_input ================== *)
\* check_input has returned for request q (or was never called)
CheckInputReturned(q) == ci_pc[q] \in {"denied", "blocked", "passed"}

\* one stage of check_input and whether it let the request through
Stage(name, ok) == [stage |-> name, ok |-> ok]

Logged(q, name, ok) == [ci_log EXCEPT ![q] = Append(@, Stage(name, ok))]

\* the release of the reservation on the guardrail-failure path forgotten
RailFailureRelease_Forgotten(q) ==
    UNCHANGED <<global_usage, session_usage, user_usage, agent_usage,
                reservations, next_id>>

\* the release call on the guardrail-failure path
RailFailureRelease(q) == ReleaseEffect(ci_res[q], req_sid[q], req_uid[q])

\* entry, audit log_request, step 1: cost_controller.check_budget
CI_CheckBudget(q, estimated_tokens, rate) ==
    /\ ci_pc[q] = "idle"
    /\ pm_pc[q] = "idle"
    /\ ci_est' = [ci_est EXCEPT ![q] = estimated_tokens]
    /\ IF ~gov_enabled
       THEN /\ ci_pc' = [ci_pc EXCEPT ![q] = "passed"]
            /\ UNCHANGED <<global_usage, session_usage, user_usage, agent_usage,
                           reservations, next_id, ci_log>>
       ELSE /\ CheckBudgetEffect(estimated_tokens, req_sid[q], req_uid[q], rate)
            /\ ci_pc' = [ci_pc EXCEPT ![q] =
                   IF BudgetVerdict(estimated_tokens, req_sid[q], req_uid[q], rate) = "ok"
                   THEN "checked" ELSE "denied"]
            /\ ci_log' = Logged(q, "budget",
                   BudgetVerdict(estimated_tokens, req_sid[q], req_uid[q], rate) = "ok")
    /\ UNCHANGED <<enabled, enforce, committed_actual, last, ncalls,
                   gov_enabled, req_sid, req_uid, ci_res, orchVars, loopVars>>

\* cost_controller.reserve_tokens
CI_Reserve(q) ==
    /\ ci_pc[q] = "checked"
    /\ ReserveEffect(ci_est[q], req_sid[q], req_uid[q])
    /\ ci_res' = [ci_res EXCEPT ![q] = next_id]
    /\ ci_pc' = [ci_pc EXCEPT ![q] = "reserved"]
    /\ ci_log' = Logged(q, "reserve", TRUE)
    /\ UNCHANGED <<enabled, enforce, committed_actual, last, ncalls,
                   gov_enabled, req_sid, req_uid, ci_est, orchVars, loopVars>>

\* step 2: nemo.check_input answers
CI_Rails(q, rails_passed) ==
    /\ ci_pc[q] = "reserved"
    /\ ci_pc' = [ci_pc EXCEPT ![q] = IF rails_passed THEN "rails_ok" ELSE "rails_failed"]
    /\ ci_log' = Logged(q, "rails", rails_passed)
    /\ UNCHANGED <<ledgerVars, gov_enabled, req_sid, req_uid, ci_est, ci_res, orchVars, loopVars>>

\* guardrail failure that falls through to the PII stage instead of returning
CI_RailsFailed_FallsThrough(q) ==
    /\ ci_pc[q] = "rails_failed"
    /\ ci_pc' = [ci_pc EXCEPT ![q] = "rails_ok"]
    /\ UNCHANGED <<ledgerVars, gov_enabled, req_sid, req_uid, ci_est, ci_res, ci_log,
                   orchVars, loopVars>>

\* guardrail failure: log_violation, release the reservation, return passed=False
CI_RailsFailed(q) ==
    /\ ci_pc[q] = "rails_failed"
    /\ RailFailureRelease(q)
    /\ ci_pc' = [ci_pc EXCEPT ![q] = "blocked"]
    /\ ci_log' = Logged(q, "release", TRUE)
    /\ UNCHANGED <<enabled, enforce, committed_actual, last, ncalls,
                   gov_enabled, req_sid, req_uid, ci_est, ci_res, orchVars, loopVars>>

\* step 3: pii_protector.protect_text (never fails), return passed=True with
\* the reservation_id
CI_PII(q) ==
    /\ ci_pc[q] = "rails_ok"
    /\ ci_pc' = [ci_pc EXCEPT ![q] = "passed"]
    /\ ci_log' = Logged(q, "pii", TRUE)
    /\ UNCHANGED <<ledgerVars, gov_enabled, req_sid, req_uid, ci_est, ci_res, orchVars, loopVars>>

(* ================== AgentOrchestrator.process_message ================== *)
\* Conversation.add_message via ConversationMemory.get_or_create
AddMessage(conv, conversation_id, role) ==
    [x \in (DOMAIN conv) \cup {conversation_id} |->
        IF x = conversation_id
        THEN (IF x \in DOMAIN conv THEN conv[x] ELSE <<>>) \o <<role>>
        ELSE conv[x]]

DictPut(f, k, v) == [x \in (DOMAIN f) \cup {k} |-> IF x = k THEN v ELSE f[x]]

\* the agent counters counting a call only when it is an error
AgentAfterCall_CountsErrorsOnly(agent, tokens_in, tokens_out, error) ==
    [total_calls |-> agent.total_calls + (IF error THEN 1 ELSE 0),
     total_tokens_in |-> agent.total_tokens_in + tokens_in,
     total_tokens_out |-> agent.total_tokens_out + tokens_out,
     error_count |-> agent.error_count + (IF error THEN 1 ELSE 0)]

\* the "+=" statements on the AgentMetrics entry
AgentAfterCall(agent, tokens_in, tokens_out, error) ==
    [total_calls |-> agent.total_calls + 1,
     total_tokens_in |-> agent.total_tokens_in + tokens_in,
     total_tokens_out |-> agent.total_tokens_out + tokens_out,
     error_count |-> agent.error_count + (IF error THEN 1 ELSE 0)]

AgentEntry(session, agent_name) ==
    IF agent_name \in DOMAIN session.agent_metrics
    THEN session.agent_metrics[agent_name] ELSE NewAgentMetrics

\* MetricsCollector.record_agent_call, the whole body under the lock
RecordAgentCall(m, session_id, agent_name, tokens_in, tokens_out, error) ==
    LET old == IF session_id \in DOMAIN m THEN m[session_id] ELSE NewSessionMetrics
        new == [total_requests |-> old.total_requests + 1,
                total_tokens_in |-> old.total_tokens_in + tokens_in,
                total_tokens_out |-> old.total_tokens_out + tokens_out,
                agent_metrics |->
                    DictPut(old.agent_metrics, agent_name,
                            AgentAfterCall(AgentEntry(old, agent_name),
                                           tokens_in, tokens_out, error))]
    IN DictPut(m, session_id, new)

\* clear_session dropping the metrics of every session
ClearMetrics_AllSessions(m, session_id) == <<>>

\* MetricsCollector.clear_session
ClearMetrics(m, session_id) == DictPop(m, session_id)

(* ------------------------------ Tracer -------------------------------- *)
\* a span as _tracer.start_as_current_span creates it; "ends" counts the
\* span.end() calls made on it
NewSpan(q, parent, name) ==
    [req |-> q, parent |-> parent, name |-> name, events |-> 0,
     tokens_in |-> 0, tokens_out |-> 0, ends |-> 0]

StartSpan(sp, q, parent, name) == Append(sp, NewSpan(q, parent, name))

\* span.is_recording(); with no current span get_current_span() gives the
\* non-recording INVALID_SPAN
IsRecording(sp, id) == id # 0 /\ sp[id].ends = 0

\* record_event that falls back to the most recent span when nothing is current
RecordEvent_LatestSpan(sp, id) ==
    IF IsRecording(sp, id) THEN [sp EXCEPT ![id].events = @ + 1]
    ELSE IF sp # <<>> THEN [sp EXCEPT ![Len(sp)].events = @ + 1]
    ELSE sp

\* the stored spans that have ended and have no parent, latest start first
RECURSIVE FinishedRootsDesc(_, _)
FinishedRootsDesc(sp, n) ==
    IF n = 0 THEN <<>>
    ELSE (IF sp[n].ends > 0 /\ sp[n].parent = 0 THEN <<n>> ELSE <<>>)
         \o FinishedRootsDesc(sp, n - 1)

\* Tracer.get_recent_traces(limit): one dict per finished root span
GetRecentTraces(sp, limit) ==
    LET roots == FinishedRootsDesc(sp, Len(sp))
        n == IF limit < Len(roots) THEN limit ELSE Len(roots)
    IN [k \in 1..n |->
          [trace_id |-> roots[k],
           event_count |-> sp[roots[k]].events,
           total_tokens_in |-> sp[roots[k]].tokens_in,
           total_tokens_out |-> sp[roots[k]].tokens_out,
           total_tokens |-> sp[roots[k]].tokens_in + sp[roots[k]].tokens_out]]

\* Tracer.record_event on the span current in the caller's context
RecordEvent(sp, id) ==
    IF IsRecording(sp, id) THEN [sp EXCEPT ![id].events = @ + 1] ELSE sp

\* Tracer.record_tokens: set_attribute overwrites
RecordTokens(sp, id, tokens_in, tokens_out) ==
    IF IsRecording(sp, id)
    THEN [sp EXCEPT ![id].tokens_in = tokens_in, ![id].tokens_out = tokens_out]
    ELSE sp

\* leaving a "with" block without ending its span
EndSpan_LeftOpen(sp, id) == sp

\* leaving the "with" block of start_as_current_span
EndSpan(sp, id) == [sp EXCEPT ![id].ends = @ + 1]

\* unwinding out of process_message: an open timed_event span first, then
\* the request span
EndToRoot(sp, id) ==
    IF sp[id].parent = 0 THEN EndSpan(sp, id)
    ELSE EndSpan(EndSpan(sp, id), sp[id].parent)

Counted(q, field, n) == [trace_calls EXCEPT ![q][field] = @ + n]

\* the returned dict of the success path
SuccessResult_TotalIsOut(tokens_in, tokens_out) ==
    [returned |-> TRUE, raised |-> FALSE, success |-> TRUE,
     tokens_in |-> tokens_in, tokens_out |-> tokens_out, tokens_total |-> tokens_out]

\* the returned dict of the success path; AgentResponse.total_tokens
SuccessResult(tokens_in, tokens_out) ==
    [returned |-> TRUE, raised |-> FALSE, success |-> TRUE,
     tokens_in |-> tokens_in, tokens_out |-> tokens_out,
     tokens_total |-> tokens_in + tokens_out]

\* the returned dict of the except branch
ErrorResult ==
    [returned |-> TRUE, raised |-> FALSE, success |-> FALSE,
     tokens_in |-> 0, tokens_out |-> 0, tokens_total |-> 0]

\* open the request span, add the user message (one MEMORY_WRITE event),
\* build context, read the history (one MEMORY_READ event), and invoke
\* coordinator.process
PM_Start(q) ==
    /\ pm_pc[q] = "idle"
    /\ ci_pc[q] = "idle" \/ CheckInputReturned(q)
    /\ trace_state' = [trace_state EXCEPT ![q] = "open"]
    /\ LET opened == StartSpan(spans, q, 0, "request")
           root == Len(opened)
       IN /\ spans' = RecordEvent(RecordEvent(opened, root), root)
          /\ current_span' = [current_span EXCEPT ![q] = root]
    /\ trace_calls' = Counted(q, "record_event", 2)
    /\ conversation' = AddMessage(conversation, req_sid[q], "user")
    /\ pm_pc' = [pm_pc EXCEPT ![q] = "coordinating"]
    /\ UNCHANGED <<ledgerVars, govVars, metrics, pm_result, mcVars, cv_last, loopVars>>

\* the success path after coordinator.process returned: what it does to the
\* orchestrator, memory, metrics and tracer
PM_ReturnsEffect(q, tokens_in, tokens_out) ==
    /\ pm_pc[q] = "coordinating"
    /\ spans[current_span[q]].parent = 0
    /\ conversation' = AddMessage(conversation, req_sid[q], "assistant")
    /\ metrics' = RecordAgentCall(metrics, req_sid[q], "coordinator", tokens_in, tokens_out, FALSE)
    /\ trace_state' = [trace_state EXCEPT ![q] = "closed"]
    /\ spans' = EndSpan(RecordEvent(spans, current_span[q]), current_span[q])
    /\ current_span' = [current_span EXCEPT ![q] = 0]
    /\ trace_calls' = Counted(q, "record_event", 1)
    /\ pm_result' = [pm_result EXCEPT ![q] = SuccessResult(tokens_in, tokens_out)]
    /\ pm_pc' = [pm_pc EXCEPT ![q] = "returned_ok"]
    /\ UNCHANGED <<mcVars, cv_last>>

\* coordinator.process returned an AgentResponse: success path
PM_CoordinatorReturns(q, tokens_in, tokens_out) ==
    /\ PM_ReturnsEffect(q, tokens_in, tokens_out)
    /\ UNCHANGED <<ledgerVars, govVars, loopVars>>

\* the except branch, entered with the spans sp that exist when the
\* exception arrives
PM_RaisesEffect(q, sp) ==
    /\ pm_pc[q] = "coordinating"
    /\ metrics' = RecordAgentCall(metrics, req_sid[q], "coordinator", 0, 0, TRUE)
    /\ trace_state' = [trace_state EXCEPT ![q] = "closed"]
    /\ spans' = EndToRoot(sp, current_span[q])
    /\ current_span' = [current_span EXCEPT ![q] = 0]
    /\ pm_result' = [pm_result EXCEPT ![q] = ErrorResult]
    /\ pm_pc' = [pm_pc EXCEPT ![q] = "returned_error"]
    /\ UNCHANGED <<conversation, mcVars, cv_last>>

\* coordinator.process raised: the except branch
PM_CoordinatorRaises(q) ==
    /\ PM_RaisesEffect(q, spans)
    /\ UNCHANGED <<ledgerVars, govVars, trace_calls, loopVars>>

\* the clients' requests: which session and user each one belongs to
RequestInit ==
    /\ req_sid \in [Reqs -> Sessions]
    /\ req_uid \in [Reqs -> UserArgs]

InitGov ==
    /\ LedgerInit
    /\ gov_enabled \in BOOLEAN
    /\ GovIdle
    /\ OrchInit
    /\ RequestInit
    /\ lp_agent = "artist_discovery"
    /\ LoopIdle

NextGov ==
    \/ \E q \in Reqs, e \in TokenCounts, r \in RateOutcomes : CI_CheckBudget(q, e, r)
    \/ \E q \in Reqs : CI_Reserve(q)
    \/ \E q \in Reqs, b \in BOOLEAN : CI_Rails(q, b)
    \/ \E q \in Reqs : CI_RailsFailed(q)
    \/ \E q \in Reqs : CI_PII(q)
    \/ \E q \in Reqs : PM_Start(q)
    \/ \E q \in Reqs, i \in TokenCounts, o \in TokenCounts : PM_CoordinatorReturns(q, i, o)
    \/ \E q \in Reqs : PM_CoordinatorRaises(q)

SpecGov == InitGov /\ [][NextGov]_vars

(* ============== properties of check_input / process_message ============ *)
\* requests whose check_input call currently holds an unsettled reservation
Holding == {q \in Reqs : ci_res[q] \in Outstanding}

HeldEstimate == [q \in Reqs |-> ci_est[q]]

\* C5: a check_input call that fails at the safety-rail stage (the PII stage
\* has no failure exit) has released its reservation when it returns: the
\* reservation is gone from the table and the global, session and user
\* counters carry nothing for the call, i.e. they equal the amounts held by
\* the calls that still hold a reservation.
RailFailureLeavesLedgerUnchanged ==
    \A q \in Reqs : ci_pc[q] = "blocked" =>
        /\ ci_res[q] \notin DOMAIN reservations
        /\ global_usage = SumOver(HeldEstimate, Holding)
        /\ \A s \in Sessions :
               Get(session_usage, s) =
                   SumOver(HeldEstimate, {h \in Holding : req_sid[h] = s})
        /\ \A u \in Users :
               Get(user_usage, u) =
                   SumOver(HeldEstimate, {h \in Holding : req_uid[h] = u})

\* a call was blocked by the safety rail after it had reserved tokens, while
\* another call of the same session still holds its reservation
RailFailureSeen ==
    \E q \in Reqs, h \in Holding :
        /\ ci_pc[q] = "blocked"
        /\ ci_res[q] > 0
        /\ ci_est[q] > 0
        /\ req_sid[h] = req_sid[q]

\* C6: check_budget + reserve_tokens act as one critical section, so
\* reservations alone never push a session counter above per_session_tokens
\* or the global counter above global_daily_tokens.
ReservationsRespectCaps ==
    /\ global_usage <= global_daily_tokens
    /\ \A s \in DOMAIN session_usage : session_usage[s] <= per_session_tokens

\* C7: when process_message has returned for a request, on the success path or
\* the error path, no reservation made for that request is still outstanding.
ReturnedRequestHoldsNoReservation ==
    \A q \in Reqs :
        pm_pc[q] \in {"returned_ok", "returned_error"} => q \notin Holding

\* C8: coordinator.process is invoked for a request only after its governance
\* input check has passed.
CoordinatorOnlyAfterInputCheck ==
    \A q \in Reqs :
        pm_pc[q] \in {"coordinating", "returned_ok", "returned_error"}
            => ci_pc[q] = "passed"

(* ============ the tool-use loop: ArtistDiscoveryAgent.process ========== *)
(* BookingAdvisorAgent.process is the same code with another name, prompt  *)
(* and tool schema list.                                                   *)
AgentNames == {"artist_discovery", "booking_advisor"}

\* _TOOL_REGISTRY
ToolRegistry == {"search_artists", "search_venues", "get_artist_details",
                 "get_venue_details", "semantic_search_artists",
                 "semantic_search_venues"}

\* the content of a model response, block by block: "text" or the name of the
\* tool a tool_use block asks for
ResponseShapes == { <<"text">>, <<>>,
                    <<"search_artists">>, <<"no_such_tool">>,
                    <<"text", "search_artists">>,
                    <<"search_artists", "no_such_tool">>,
                    <<"no_such_tool", "text", "search_artists">>,
                    <<"text", "search_artists", "text">> }

\* response.usage of a model response
Usages == { [input_tokens |-> 1, output_tokens |-> 1],
            [input_tokens |-> 2, output_tokens |-> 3] }

\* what a registered tool function does when it is called
ToolOutcomes == {"returns", "raises"}

\* conversation_history passed to process()
Histories == { <<>>,
               << [role |-> "user", content |-> "earlier question"],
                  [role |-> "assistant", content |-> "earlier answer"] >> }

\* block.text of a text block, by its position in the response
BlockTexts == <<"text of block 1", "text of block 2", "text of block 3">>

\* the blocks of the response of model call number call_no
ResponseContent(shape, call_no) ==
    [i \in 1..Len(shape) |->
        IF shape[i] = "text"
        THEN [type |-> "text", text |-> BlockTexts[i], id |-> <<0, 0>>, name |-> ""]
        ELSE [type |-> "tool_use", text |-> "", id |-> <<call_no, i>>, name |-> shape[i]]]

IsToolUse(block) == block.type = "tool_use"

IsText(block) == block.type = "text"

\* BaseAgent._has_tool_use
HasToolUse(resp) == \E i \in 1..Len(resp) : IsToolUse(resp[i])

\* _extract_tool_calls stopping at the first tool_use block
ExtractToolCalls_FirstOnly(resp) ==
    LET all == SelectSeq(resp, IsToolUse) IN SubSeq(all, 1, 1)

\* BaseAgent._extract_tool_calls
ExtractToolCalls(resp) == SelectSeq(resp, IsToolUse)

\* _extract_text_response returning the last text block instead of the first
ExtractTextResponse_LastText(resp) ==
    LET texts == SelectSeq(resp, IsText)
    IN IF Len(texts) > 0 THEN texts[Len(texts)].text ELSE ""

\* BaseAgent._extract_text_response
ExtractTextResponse(resp) ==
    LET texts == SelectSeq(resp, IsText)
    IN IF Len(texts) > 0 THEN texts[1].text ELSE ""

\* BaseAgent._build_messages (no context)
BuildMessages(history) == history \o << [role |-> "user", content |-> "query"] >>

\* json.dumps of a tool result
JsonDumps(result) ==
    IF result.kind = "error"
    THEN <<"{", "error", ":", result.text, "}">>
    ELSE <<"[", result.text, "]">>

\* execute_tool without the membership test and the try/except
ExecuteTool_NoCatch(tool_name, outcome) ==
    IF tool_name \notin ToolRegistry THEN [kind |-> "raised", text |-> "KeyError"]
    ELSE IF outcome = "raises" THEN [kind |-> "raised", text |-> "Exception"]
    ELSE [kind |-> "value", text |-> tool_name]

\* execute_tool
ExecuteTool(tool_name, outcome) ==
    IF tool_name \notin ToolRegistry THEN [kind |-> "error", text |-> "Unknown tool"]
    ELSE IF outcome = "raises" THEN [kind |-> "error", text |-> "Tool execution failed"]
    ELSE [kind |-> "value", text |-> tool_name]

\* range(max_agent_iterations + 1)
LoopContinues_OffByOne(i) == i + 1 <= max_agent_iterations

\* "for iteration in range(settings.max_agent_iterations)": another pass follows pass i
LoopContinues(i) == i + 1 < max_agent_iterations

\* "total_tokens_in = tokens_in": the count of the latest call only
Accumulate_LastOnly(total, tokens) == tokens

\* "total_tokens_in += tokens_in", "total_tokens_out += tokens_out"
Accumulate(total, tokens) == total + tokens

\* agent_start event, _build_messages, the accumulators, first pass of the loop
LP_Start(history) ==
    /\ lp_pc = "idle"
    /\ events' = Append(events, "agent_start")
    /\ messages' = BuildMessages(history)
    /\ total_tokens_in' = 0
    /\ total_tokens_out' = 0
    /\ iteration' = 0
    /\ lp_pc' = "call"
    /\ UNCHANGED <<lp_agent, elapsed, call_times, response, tool_calls, tool_results, llm_calls,
                   last_request, tool_log, llm_log, lp_error, lp_result,
                   ledgerVars, govVars, orchVars>>

\* _call_llm returns: accumulate tokens, then either break or collect the
\* tool calls and append the assistant message
LP_CallLLM(shape, usage) ==
    /\ lp_pc = "call"
    /\ llm_calls' = llm_calls + 1
    /\ call_times' = Append(call_times, elapsed)
    /\ last_request' = messages
    /\ response' = ResponseContent(shape, llm_calls + 1)
    /\ llm_log' = Append(llm_log, [content |-> response', usage |-> usage])
    /\ events' = Append(events, "llm_response")
    /\ total_tokens_in' = Accumulate(total_tokens_in, usage.input_tokens)
    /\ total_tokens_out' = Accumulate(total_tokens_out, usage.output_tokens)
    /\ IF ~HasToolUse(response')
       THEN /\ lp_pc' = "end"
            /\ UNCHANGED <<tool_calls, messages, tool_results>>
       ELSE /\ tool_calls' = ExtractToolCalls(response')
            /\ messages' = Append(messages, [role |-> "assistant", content |-> response'])
            /\ tool_results' = <<>>
            /\ lp_pc' = "tools"
    /\ UNCHANGED <<lp_agent, elapsed, iteration, tool_log, lp_error, lp_result,
                   ledgerVars, govVars, orchVars>>

\* client.messages.create raises: the exception leaves process()
LP_CallLLMRaises ==
    /\ lp_pc = "call"
    /\ llm_calls' = llm_calls + 1
    /\ call_times' = Append(call_times, elapsed)
    /\ last_request' = messages
    /\ lp_error' = "llm"
    /\ lp_pc' = "raised"
    /\ UNCHANGED <<lp_agent, elapsed, iteration, messages, response, tool_calls, tool_results,
                   total_tokens_in, total_tokens_out, tool_log, llm_log, events,
                   lp_result,
                   ledgerVars, govVars, orchVars>>

\* one pass of "for tc in tool_calls"; after the last tool call the results are
\* appended to messages and the for loop over iterations advances or ends
LP_ExecTool(outcome) ==
    /\ lp_pc = "tools"
    /\ LET tc == tool_calls[Len(tool_results) + 1]
           result == ExecuteTool(tc.name, outcome)
           results == Append(tool_results,
                             [type |-> "tool_result", tool_use_id |-> tc.id,
                              content |-> JsonDumps(result)])
       IN /\ tool_log' = Append(tool_log, [id |-> tc.id, name |-> tc.name,
                                           result |-> result, call |-> llm_calls])
          /\ IF result.kind = "raised"
             THEN /\ events' = Append(events, "tool_call")
                  /\ lp_error' = "tool"
                  /\ lp_pc' = "raised"
                  /\ UNCHANGED <<tool_results, messages, iteration>>
             ELSE /\ events' = events \o <<"tool_call", "tool_result">>
                  /\ tool_results' = results
                  /\ lp_error' = lp_error
                  /\ IF Len(results) < Len(tool_calls)
                     THEN UNCHANGED <<messages, iteration, lp_pc>>
                     ELSE /\ messages' = Append(messages,
                                                [role |-> "user", content |-> results])
                          /\ IF LoopContinues(iteration)
                             THEN iteration' = iteration + 1 /\ lp_pc' = "call"
                             ELSE iteration' = iteration /\ lp_pc' = "end"
    /\ UNCHANGED <<lp_agent, elapsed, call_times, response, tool_calls, total_tokens_in, total_tokens_out,
                   llm_calls, last_request, llm_log, lp_result,
                   ledgerVars, govVars, orchVars>>

\* the loop index reported as it is
IterationsReported_ZeroBased(i) == i

\* metadata={"iterations": iteration + 1}
IterationsReported(i) == i + 1

\* agent_end event and the AgentResponse
LP_End ==
    /\ lp_pc = "end"
    /\ events' = Append(events, "agent_end")
    /\ lp_result' = [returned |-> TRUE,
                     content |-> ExtractTextResponse(response),
                     tokens_in |-> total_tokens_in,
                     tokens_out |-> total_tokens_out,
                     iterations |-> IterationsReported(iteration)]
    /\ lp_pc' = "done"
    /\ UNCHANGED <<lp_agent, elapsed, call_times, iteration, messages, response, tool_calls, tool_results,
                   total_tokens_in, total_tokens_out, llm_calls, last_request,
                   tool_log, llm_log, lp_error, ledgerVars, govVars, orchVars>>

InitLoop ==
    /\ LedgerInit
    /\ GovInit
    /\ OrchInit
    /\ req_sid = [q \in Reqs |-> "s1"]
    /\ req_uid = [q \in Reqs |-> NoUser]
    /\ lp_agent \in AgentNames
    /\ LoopIdle

NextLoop ==
    \/ \E h \in Histories : LP_Start(h)
    \/ \E sh \in ResponseShapes, u \in Usages : LP_CallLLM(sh, u)
    \/ LP_CallLLMRaises
    \/ \E o \in ToolOutcomes : LP_ExecTool(o)
    \/ LP_End

SpecLoop == InitLoop /\ [][NextLoop]_vars

\* process() is sequential code: a model call or a tool call that was issued
\* returns or raises, and the next statement runs
SpecLoopFair == SpecLoop /\ WF_vars(NextLoop)

(* ==================== properties of the tool-use loop ================== *)
LoopTerminated == lp_pc \in {"done", "raised"}

\* C9: the tool-use loop always terminates, and it never issues more than
\* max_agent_iterations model calls, even when every response asks for tools.
LoopTerminatesWithinCap ==
    /\ <>LoopTerminated
    /\ [](llm_calls <= max_agent_iterations)

\* a run in which every model response asked for a tool has returned at the cap
CapReachedWithToolRequests ==
    /\ lp_pc = "done"
    /\ llm_calls = max_agent_iterations
    /\ HasToolUse(response)
    /\ Len(tool_log) >= max_agent_iterations

\* the tool_result block the loop builds for an executed tool call
ToolResultBlock(t) ==
    [type |-> "tool_result", tool_use_id |-> t.id, content |-> JsonDumps(t.result)]

\* the message list msgs carries the tool_result block of execution t
FedBack(msgs, t) ==
    \E i \in 1..Len(msgs) :
        /\ msgs[i].role = "user"
        /\ msgs[i].content # "query"
        /\ msgs[i].content # "earlier question"
        /\ \E j \in 1..Len(msgs[i].content) : msgs[i].content[j] = ToolResultBlock(t)

FailedExecutions ==
    {k \in 1..Len(tool_log) : tool_log[k].result.kind # "value"}

\* C10: a failing tool execution (unknown name or the tool raising) never
\* aborts the loop; it yields an {error: message} result that becomes the
\* tool_result of that tool call and is in the message list of the model call
\* that follows it.
ToolFailureFedBack ==
    /\ lp_error # "tool"
    /\ \A k \in FailedExecutions :
          LET t == tool_log[k] IN
          /\ t.result.kind = "error"
          /\ \/ \E j \in 1..Len(tool_results) : tool_results[j] = ToolResultBlock(t)
             \/ FedBack(messages, t)
          /\ llm_calls > t.call => FedBack(last_request, t)

\* a model call has been issued after an unknown tool and a raising tool failed
ToolFailureSeenByModel ==
    /\ llm_calls = 2
    /\ \E k \in FailedExecutions :
          tool_log[k].call = 1 /\ tool_log[k].result.text = "Unknown tool"
    /\ \E k \in FailedExecutions :
          tool_log[k].call = 1 /\ tool_log[k].result.text = "Tool execution failed"

\* the tool_use ids model response k asked for, in the order of its blocks
RequestedIds(k) ==
    LET asked == SelectSeq(llm_log[k].content, IsToolUse)
    IN [j \in 1..Len(asked) |-> asked[j].id]

\* the tool_use ids of the execute_tool calls made for model response k, in
\* the order they were made
ExecutedIds(k) ==
    LET IsOfCall(t) == t.call = k
        ran == SelectSeq(tool_log, IsOfCall)
    IN [j \in 1..Len(ran) |-> ran[j].id]

\* C11: model call k+1 is issued only after every tool call requested by
\* response k has been executed, and the tool results passed to call k+1 are
\* one per requested tool call, in the order requested, each with the
\* tool_use id of its request.
ToolResultsInRequestOrder ==
    \A k \in 1..Len(llm_log) :
        llm_calls > k =>
            /\ ExecutedIds(k) = RequestedIds(k)
            /\ k = llm_calls - 1 =>
                 LET m == last_request[Len(last_request)] IN
                 /\ m.role = "user"
                 /\ Len(m.content) = Len(RequestedIds(k))
                 /\ \A j \in 1..Len(m.content) :
                       /\ m.content[j].type = "tool_result"
                       /\ m.content[j].tool_use_id = RequestedIds(k)[j]

\* a second model call has been issued after a response that asked for two tools
SecondCallAfterTwoTools ==
    /\ llm_calls = 2
    /\ Len(llm_log) >= 1
    /\ Len(RequestedIds(1)) = 2
    /\ Len(last_request[Len(last_request)].content) = 2

RECURSIVE SumInputTokens(_)
SumInputTokens(n) ==
    IF n = 0 THEN 0 ELSE llm_log[n].usage.input_tokens + SumInputTokens(n - 1)

RECURSIVE SumOutputTokens(_)
SumOutputTokens(n) ==
    IF n = 0 THEN 0 ELSE llm_log[n].usage.output_tokens + SumOutputTokens(n - 1)

\* C12: the tokens_in and tokens_out of the AgentResponse are the sums of the
\* input and output token counts of every model call of the run.
TokensSummedOverAllCalls ==
    lp_result.returned =>
        /\ lp_result.tokens_in = SumInputTokens(Len(llm_log))
        /\ lp_result.tokens_out = SumOutputTokens(Len(llm_log))

\* a run of two model calls with different usages has returned
TwoCallRunReturned ==
    /\ lp_result.returned
    /\ Len(llm_log) = 2
    /\ llm_log[1].usage # llm_log[2].usage
    /\ lp_result.tokens_in > llm_log[2].usage.input_tokens

\* the run ended at the iteration cap with a last response that asks for tools
EndedAtCapRequestingTools ==
    /\ lp_pc = "done"
    /\ llm_calls = max_agent_iterations
    /\ Len(llm_log) = max_agent_iterations
    /\ \E i \in 1..Len(llm_log[Len(llm_log)].content) :
          llm_log[Len(llm_log)].content[i].type = "tool_use"

\* C13: when the iteration cap is reached while the last model response still
\* asks for tools, the run returns normally, with the text of the first text
\* block of that response as content, or "" when it has no text block.
CapReturnsFirstTextOfLastResponse ==
    EndedAtCapRequestingTools =>
        LET c == llm_log[Len(llm_log)].content
            textAt == {i \in 1..Len(c) : c[i].type = "text"}
        IN /\ lp_error = "none"
           /\ lp_result.returned
           /\ IF textAt = {} THEN lp_result.content = ""
              ELSE \E i \in textAt :
                      /\ \A j \in textAt : i <= j
                      /\ lp_result.content = c[i].text

\* a run ended at the cap on a response with a tool request between two texts
CapReachedWithTwoTexts ==
    /\ EndedAtCapRequestingTools
    /\ Cardinality({i \in 1..Len(response) : response[i].type = "text"}) = 2
    /\ lp_result.content = "text of block 1"

\* C14: commit_usage applies actual_tokens - reserved amount to the counters
\* the reservation was charged to (global, the reserving session, the
\* reserving user), whatever session_id and user_id the commit call passes,
\* and to no other session or user counter.  Stated for the commit that
\* directly follows the reserve_tokens call.
CommitAdjustsReservedScope ==
    [][ \A a \in Amounts, s \in Sessions, u \in UserArgs, g \in AgentArgs :
          (last.op = "reserve" /\ last'.op = "commit"
                               /\ commit_usage(last.rid, a, s, u, g)) =>
             LET delta == a - last.amount IN
             /\ global_usage' = global_usage + delta
             /\ \A s2 \in Sessions :
                   Get(session_usage', s2) =
                       Get(session_usage, s2) + (IF s2 = last.sid THEN delta ELSE 0)
             /\ \A u2 \in Users :
                   Get(user_usage', u2) =
                       Get(user_usage, u2) + (IF u2 = last.uid THEN delta ELSE 0) ]_vars

\* C15: reserve_tokens(a, s, u) directly followed by release_reservation of
\* the returned id with the same s and u puts global_usage, session_usage[s]
\* and user_usage[u] back to the values they had before the reservation,
\* removes the record and touches no other session or user counter.
ReserveThenReleaseRestores ==
    [][ (last.op = "reserve" /\ last'.op = "release"
                             /\ release_reservation(last.rid, last.sid, last.uid)) =>
           /\ global_usage' = last.pre.global
           /\ Get(session_usage', last.sid) = last.pre.session
           /\ (last.uid # NoUser => Get(user_usage', last.uid) = last.pre.user)
           /\ \A s2 \in Sessions \ {last.sid} :
                 Get(session_usage', s2) = Get(session_usage, s2)
           /\ \A u2 \in Users \ {last.uid} : Get(user_usage', u2) = Get(user_usage, u2)
           /\ last.rid \notin DOMAIN reservations' ]_vars

\* a reservation of a positive amount for a user, made on top of a non-zero
\* ledger, has just been released with the same session and user
ReserveThenReleaseSeen ==
    /\ last.op = "release"
    /\ last.found
    /\ last.sid \in Sessions
    /\ last.uid \in Users
    /\ last.amount > 0
    /\ last.pre.global > 0
    /\ global_usage = last.pre.global

\* C16: reserve_tokens(r) directly followed by one commit_usage(actual_tokens
\* = a) on the returned id, with the same session and user, leaves
\* global_usage and the session and user counters at their pre-reservation
\* values plus a, whether a is above or below r.
ReserveThenCommitChargesActual ==
    [][ \A a \in Amounts, g \in AgentArgs :
          (last.op = "reserve" /\ last'.op = "commit"
                               /\ commit_usage(last.rid, a, last.sid, last.uid, g)) =>
             /\ global_usage' = last.pre.global + a
             /\ Get(session_usage', last.sid) = last.pre.session + a
             /\ (last.uid # NoUser => Get(user_usage', last.uid) = last.pre.user + a) ]_vars

\* a reservation for a user has just been committed with fewer tokens than it
\* reserved, on top of a non-zero ledger
ReserveThenCommitSeen ==
    /\ last.op = "commit"
    /\ last.found
    /\ last.sid \in Sessions
    /\ last.uid \in Users
    /\ last.rid \in DOMAIN committed_actual
    /\ committed_actual[last.rid] < last.amount
    /\ last.pre.global > 0

(* ============ check_budget under every budget configuration ============ *)
\* CostController.__init__ with budgets_enabled / budgets_enforce as configured
InitBudget ==
    /\ enabled \in BOOLEAN
    /\ enforce \in BOOLEAN
    /\ global_usage = 0
    /\ session_usage = <<>>
    /\ user_usage = <<>>
    /\ agent_usage = <<>>
    /\ reservations = <<>>
    /\ next_id = 1
    /\ committed_actual = <<>>
    /\ last = NoCall
    /\ ncalls = 0
    /\ GovInit
    /\ OrchInit
    /\ req_sid = [q \in Reqs |-> "s1"]
    /\ req_uid = [q \in Reqs |-> NoUser]
    /\ lp_agent = "artist_discovery"
    /\ LoopIdle

\* a client asking for budget and reserving
NextBudget ==
    \/ CallCheckBudget
    \/ CallReserve

SpecBudget == InitBudget /\ [][NextBudget]_vars

\* the controls are enabled and enforced
Enforced == enabled /\ enforce

\* C17: with the controls enabled and enforced, after reserve_tokens(a) for a
\* session, check_budget(e) for the same session is not allowed whenever the
\* session's usage before the reservation, plus a, plus e exceeds
\* per_session_tokens.
OutstandingReservationCountsAgainstCap ==
    [][ \A e \in Amounts, u \in UserArgs, rf \in BOOLEAN, tf \in BOOLEAN :
          ( /\ Enforced
            /\ last.op = "reserve"
            /\ last'.op = "check_budget"
            /\ last'.amount = e
            /\ last'.uid = u
            /\ last.pre.session + last.amount + e > per_session_tokens
            /\ check_budget(e, last.sid, u, rf, tf) )
          => last'.verdict # "ok" ]_vars

\* a request that would fit the session cap on its own has been denied at the
\* session scope while a reservation of a positive amount is outstanding
DeniedBecauseOfReservation ==
    /\ Enforced
    /\ last.op = "check_budget"
    /\ last.verdict = "session"
    /\ last.amount <= per_session_tokens
    /\ \E r \in Outstanding : reservations[r].amount > 0
    /\ Get(session_usage, last.sid) > 0

\* every cumulative scope has room for e tokens, the limit itself included
WithinEveryCap(e, s, u) ==
    /\ global_usage + e <= global_daily_tokens
    /\ Get(session_usage, s) + e <= per_session_tokens
    /\ (u # NoUser => Get(user_usage, u) + e <= per_user_daily_tokens)

\* C18 (as stated): with no rate limiter full, check_budget allows a request
\* exactly when usage + estimated_tokens is at most the limit in the global,
\* session and user scope, and denies it when it is greater in one of them.
LimitsAreInclusive ==
    [][ \A e \in Amounts, s \in Sessions, u \in UserArgs :
          (last'.op = "check_budget" /\ last'.amount = e /\ last'.sid = s
                                      /\ last'.uid = u
                                      /\ check_budget(e, s, u, FALSE, FALSE)) =>
             (last'.verdict = "ok" <=> WithinEveryCap(e, s, u)) ]_vars

\* C18 (amended): the same, for a controller that is enabled and enforcing;
\* a controller that is disabled or only alerting allows every request.
LimitsAreInclusiveWhenEnforced ==
    [][ \A e \in Amounts, s \in Sessions, u \in UserArgs :
          (last'.op = "check_budget" /\ last'.amount = e /\ last'.sid = s
                                      /\ last'.uid = u
                                      /\ check_budget(e, s, u, FALSE, FALSE)) =>
             IF Enforced
             THEN last'.verdict = "ok" <=> WithinEveryCap(e, s, u)
             ELSE last'.verdict = "ok" ]_vars

\* a request that brings the global counter, already above 0, and the session
\* counter exactly to their limits was allowed
AllowedAtTheLimit ==
    /\ Enforced
    /\ last.op = "check_budget"
    /\ last.verdict = "ok"
    /\ last.amount > 0
    /\ global_usage > 0
    /\ global_usage + last.amount = global_daily_tokens
    /\ Get(session_usage, last.sid) + last.amount = per_session_tokens

\* the first scope, in the order global, session, user, request rate, token
\* rate, that the request violates
FirstViolatedScope(e, s, u, request_full, token_full) ==
    IF global_usage + e > global_daily_tokens THEN "global"
    ELSE IF Get(session_usage, s) + e > per_session_tokens THEN "session"
    ELSE IF u # NoUser /\ Get(user_usage, u) + e > per_user_daily_tokens THEN "user"
    ELSE IF request_full THEN "request_rate_full"
    ELSE IF token_full THEN "token_rate_full"
    ELSE "ok"

\* C19 (as stated): check_budget reports the first violated scope in the order
\* global, session, user, request rate, token rate, and allows only when no
\* scope is violated.
FirstViolatedScopeReported ==
    [][ \A e \in Amounts, s \in Sessions, u \in UserArgs, rf \in BOOLEAN, tf \in BOOLEAN :
          (last'.op = "check_budget" /\ last'.amount = e /\ last'.sid = s
                                      /\ last'.uid = u
                                      /\ check_budget(e, s, u, rf, tf)) =>
             last'.verdict = FirstViolatedScope(e, s, u, rf, tf) ]_vars

\* C19 (amended): the same, for a controller that is enabled and enforcing;
\* a controller that is disabled or only alerting reports no violated scope.
FirstViolatedScopeReportedWhenEnforced ==
    [][ \A e \in Amounts, s \in Sessions, u \in UserArgs, rf \in BOOLEAN, tf \in BOOLEAN :
          (last'.op = "check_budget" /\ last'.amount = e /\ last'.sid = s
                                      /\ last'.uid = u
                                      /\ check_budget(e, s, u, rf, tf)) =>
             last'.verdict = IF Enforced THEN FirstViolatedScope(e, s, u, rf, tf)
                             ELSE "ok" ]_vars

\* a request that violates both the global and the session cap was denied with
\* the global reason
GlobalReportedBeforeSession ==
    /\ Enforced
    /\ last.op = "check_budget"
    /\ last.verdict = "global"
    /\ Get(session_usage, last.sid) + last.amount > per_session_tokens
    /\ global_usage + last.amount > global_daily_tokens

\* C20: check_budget, allowing or denying, leaves global_usage, session_usage,
\* user_usage, agent_usage and the reservation table as they were.
CheckBudgetLeavesLedgerUntouched ==
    [][ \A e \in Amounts, s \in Sessions, u \in UserArgs, rf \in BOOLEAN, tf \in BOOLEAN :
          (last'.op = "check_budget" /\ last'.amount = e /\ last'.sid = s
                                      /\ last'.uid = u
                                      /\ check_budget(e, s, u, rf, tf)) =>
             UNCHANGED <<global_usage, session_usage, user_usage, agent_usage,
                         reservations>> ]_vars

\* C21: release_reservation takes the full reserved amount off the global
\* counter and off the counters of the session and user it is given if and
\* only if the reservation exists and was never committed; otherwise (unknown
\* id, or a committed reservation) all counters stay as they were; in every
\* case the reservation record is gone afterwards.
ReleaseRevertsOnlyUncommitted ==
    [][ \A r \in ResIds, s \in Sessions, u \in UserArgs :
          (last'.op = "release" /\ last'.rid = r /\ release_reservation(r, s, u)) =>
             /\ r \notin DOMAIN reservations'
             /\ IF r \in DOMAIN reservations /\ ~reservations[r].committed
                THEN LET amount == reservations[r].amount IN
                     /\ global_usage' = global_usage - amount
                     /\ \A s2 \in Sessions :
                           Get(session_usage', s2) =
                               Get(session_usage, s2) - (IF s2 = s THEN amount ELSE 0)
                     /\ \A u2 \in Users :
                           Get(user_usage', u2) =
                               Get(user_usage, u2) - (IF u2 = u THEN amount ELSE 0)
                ELSE CountersUnchanged ]_vars

\* a reservation that was committed with a positive amount has just been
\* released, and the committed tokens are still counted
CommittedReservationReleased ==
    /\ last.op = "release"
    /\ last.found
    /\ last.rid \in DOMAIN committed_actual
    /\ committed_actual[last.rid] > 0
    /\ global_usage = committed_actual[last.rid]
    /\ reservations = <<>>

(* ======================= check_input as a pipeline ===================== *)
StagesRun(q) == {ci_log[q][i].stage : i \in DOMAIN ci_log[q]}

FullPipeline ==
    <<Stage("budget", TRUE), Stage("reserve", TRUE), Stage("rails", TRUE), Stage("pii", TRUE)>>

ShortCircuits(q) ==
    /\ ci_pc[q] = "denied" =>
          /\ ci_log[q] = <<Stage("budget", FALSE)>>
          /\ ci_res[q] = 0
    /\ Stage("budget", FALSE) \in {ci_log[q][i] : i \in DOMAIN ci_log[q]} =>
          StagesRun(q) = {"budget"}
    /\ Stage("rails", FALSE) \in {ci_log[q][i] : i \in DOMAIN ci_log[q]} =>
          "pii" \notin StagesRun(q)
    /\ ci_pc[q] = "blocked" =>
          ci_log[q] = <<Stage("budget", TRUE), Stage("reserve", TRUE),
                        Stage("rails", FALSE), Stage("release", TRUE)>>

\* C22 as stated: a denied budget check returns without reservation, rail or
\* PII stage; a failed rail returns without the PII stage; and passed=true
\* is returned only after budget, safety rail and PII ran in that order.
PassedOnlyAfterAllStages ==
    \A q \in Reqs :
        /\ ShortCircuits(q)
        /\ ci_pc[q] = "passed" => ci_log[q] = FullPipeline

\* C22: the same for an enabled GovernanceCoordinator; a disabled one
\* returns passed=true at once, having run no stage.
PassedOnlyAfterAllStagesWhenEnabled ==
    \A q \in Reqs :
        /\ ShortCircuits(q)
        /\ (gov_enabled /\ ci_pc[q] = "passed") => ci_log[q] = FullPipeline
        /\ (~gov_enabled /\ ci_pc[q] = "passed") => ci_log[q] = <<>>

\* one request went through all three stages, another was stopped by the
\* guardrail, or by the budget check
PassedAndStoppedRequests ==
    /\ gov_enabled
    /\ \E q1, q2 \in Reqs :
          /\ ci_pc[q1] = "passed"
          /\ ci_log[q1] = FullPipeline
          /\ ci_pc[q2] = "denied"

(* ====================== tracing of process_message ===================== *)
TraceOpen(q) == pm_pc[q] = "coordinating"

\* tracer calls issued so far by callers other than process_message itself
TotalIssued == SumOver([q \in Reqs |-> trace_calls[q].issued], Reqs)

CanIssue(q) == TotalIssued < MaxTraceOps

\* count one call: under its kind when the trace of q is open, under
\* "outside" when it is made with no open trace
Issued1(q, field) ==
    [trace_calls EXCEPT ![q] =
        [@ EXCEPT !.issued = @ + 1,
                  ![IF TraceOpen(q) THEN field ELSE "outside"] = @ + 1]]

\* tracer.record_event called in the context of request q: by an agent or the
\* memory under coordinator.process, or by a caller outside any request
TR_RecordEvent(q) ==
    /\ CanIssue(q)
    /\ spans' = RecordEvent(spans, current_span[q])
    /\ trace_calls' = Issued1(q, "record_event")
    /\ UNCHANGED <<ledgerVars, govVars, pm_pc, conversation, trace_state, metrics,
                   pm_result, current_span, mcVars, cv_last, loopVars>>

\* tracer.record_tokens called in the context of request q
TR_RecordTokens(q, tokens_in, tokens_out) ==
    /\ CanIssue(q)
    /\ spans' = RecordTokens(spans, current_span[q], tokens_in, tokens_out)
    /\ trace_calls' = Issued1(q, "record_tokens")
    /\ UNCHANGED <<ledgerVars, govVars, pm_pc, conversation, trace_state, metrics,
                   pm_result, current_span, mcVars, cv_last, loopVars>>

\* BaseAgent._call_llm enters "with tracer.timed_event(...)": a child span
TR_TimedEventEnter(q) ==
    /\ TraceOpen(q)
    /\ CanIssue(q)
    /\ spans[current_span[q]].parent = 0
    /\ spans' = StartSpan(spans, q, current_span[q], "timed")
    /\ current_span' = [current_span EXCEPT ![q] = Len(spans) + 1]
    /\ trace_calls' = Issued1(q, "timed_event")
    /\ UNCHANGED <<ledgerVars, govVars, pm_pc, conversation, trace_state, metrics,
                   pm_result, mcVars, cv_last, loopVars>>

\* the "with tracer.timed_event(...)" block is left normally
TR_TimedEventExit(q) ==
    /\ TraceOpen(q)
    /\ spans[current_span[q]].parent # 0
    /\ spans' = EndSpan(spans, current_span[q])
    /\ current_span' = [current_span EXCEPT ![q] = spans[current_span[q]].parent]
    /\ UNCHANGED <<ledgerVars, govVars, pm_pc, conversation, trace_state, metrics,
                   pm_result, trace_calls, mcVars, cv_last, loopVars>>

InitTrace ==
    /\ LedgerInit
    /\ GovInit
    /\ OrchInit
    /\ req_sid \in [Reqs -> Sessions]
    /\ req_uid = [q \in Reqs |-> NoUser]
    /\ lp_agent = "artist_discovery"
    /\ LoopIdle

NextTrace ==
    \/ \E q \in Reqs : PM_Start(q)
    \/ \E q \in Reqs, i \in TokenCounts, o \in TokenCounts : PM_CoordinatorReturns(q, i, o)
    \/ \E q \in Reqs : PM_CoordinatorRaises(q)
    \/ \E q \in Reqs : TR_RecordEvent(q)
    \/ \E q \in Reqs, i \in TokenCounts, o \in TokenCounts : TR_RecordTokens(q, i, o)
    \/ \E q \in Reqs : TR_TimedEventEnter(q)
    \/ \E q \in Reqs : TR_TimedEventExit(q)

SpecTrace == InitTrace /\ [][NextTrace]_vars

\* C23: an exception out of coordinator.process does not leave
\* process_message: the call returns success=false with tokens in, out and
\* total all 0; a successful call returns success=true with
\* tokens.total = tokens.in + tokens.out.
ErrorsBecomeFailureResponses ==
    \A q \in Reqs :
        /\ pm_pc[q] = "returned_error" =>
              /\ pm_result[q].returned /\ ~pm_result[q].raised
              /\ ~pm_result[q].success
              /\ pm_result[q].tokens_in = 0
              /\ pm_result[q].tokens_out = 0
              /\ pm_result[q].tokens_total = 0
        /\ pm_pc[q] = "returned_ok" =>
              /\ pm_result[q].returned /\ ~pm_result[q].raised
              /\ pm_result[q].success
              /\ pm_result[q].tokens_total = pm_result[q].tokens_in + pm_result[q].tokens_out
        /\ pm_pc[q] \in {"idle", "coordinating"} => pm_result[q] = NoReturn

\* one request failed in the coordinator and one succeeded using tokens
FailedAndSucceededRequests ==
    \E q1, q2 \in Reqs :
        /\ pm_pc[q1] = "returned_error"
        /\ pm_pc[q2] = "returned_ok"
        /\ pm_result[q2].tokens_in > 0
        /\ pm_result[q2].tokens_out > 0

\* the "request" spans started for request q
RequestSpans(q) == {i \in DOMAIN spans : spans[i].req = q /\ spans[i].parent = 0}

SpansOf(q) == {i \in DOMAIN spans : spans[i].req = q}

\* C24: a request has no trace before process_message starts, exactly one
\* open trace while it is being processed, and after process_message
\* returned (success or error) still exactly one trace, ended exactly
\* once, with no span of the request left open or current.
OneTraceClosedExactlyOnce ==
    \A q \in Reqs :
        /\ pm_pc[q] = "idle" => RequestSpans(q) = {}
        /\ pm_pc[q] = "coordinating" =>
              /\ Cardinality(RequestSpans(q)) = 1
              /\ \A i \in RequestSpans(q) : spans[i].ends = 0
              /\ current_span[q] \in SpansOf(q)
        /\ pm_pc[q] \in {"returned_ok", "returned_error"} =>
              /\ Cardinality(RequestSpans(q)) = 1
              /\ \A i \in SpansOf(q) : spans[i].ends = 1
              /\ current_span[q] = 0

\* one request returned normally and another returned through the except
\* branch, the exception having come out of a timed_event block
TracesClosedOnBothPaths ==
    \E q1, q2 \in Reqs :
        /\ pm_pc[q1] = "returned_ok"
        /\ pm_pc[q2] = "returned_error"
        /\ \E i \in SpansOf(q2) : spans[i].parent # 0

\* C25: for every closed trace, the event_count that get_recent_traces
\* reports equals the number of record_event calls plus the number of
\* timed_event spans issued while the trace was open.
EventCountCountsEventsAndTimedSpans ==
    LET traces == GetRecentTraces(spans, DefaultTraceLimit) IN
    \A k \in DOMAIN traces :
        LET q == spans[traces[k].trace_id].req IN
        traces[k].event_count =
            trace_calls[q].record_event + trace_calls[q].timed_event

\* C26: record_event and record_tokens called in a context with no open
\* trace complete and leave every stored span as it was.
NoOpenTraceNoEffect ==
    [][ \A q \in Reqs :
          (/\ current_span[q] = 0
           /\ trace_calls'[q].outside = trace_calls[q].outside + 1
           /\ \/ TR_RecordEvent(q)
              \/ \E i \in TokenCounts, o \in TokenCounts : TR_RecordTokens(q, i, o))
          => spans' = spans ]_vars

\* a recording call was made with no open trace while a finished trace was stored
RecordedOutsideAnyTrace ==
    \E q \in Reqs :
        /\ trace_calls[q].outside > 0
        /\ current_span[q] = 0
        /\ \E i \in DOMAIN spans : spans[i].ends = 1

(* ============ one request through the agent loop and the tracer ========= *)
RQ_Counted(q, events_n, tokens_n, timed_n) ==
    [trace_calls EXCEPT ![q].record_event = @ + events_n,
                        ![q].record_tokens = @ + tokens_n,
                        ![q].timed_event = @ + timed_n]

RQ_LoopFrame ==
    UNCHANGED <<lp_agent, iteration, messages, response, tool_calls, tool_results,
                last_request, tool_log, llm_log, events, lp_error, lp_result,
                elapsed, call_times>>

RQ_OrchFrame ==
    UNCHANGED <<pm_pc, conversation, trace_state, metrics, pm_result, current_span,
                mcVars, cv_last>>

\* process_message is entered while no other request is being processed
RQ_Start(q) ==
    /\ \A p \in Reqs : pm_pc[p] # "coordinating"
    /\ PM_Start(q)

\* process(): the agent_start event and "total_tokens_in, total_tokens_out = 0, 0"
RQ_Process(q) ==
    /\ pm_pc[q] = "coordinating"
    /\ lp_pc \in {"idle", "done"}
    /\ spans' = RecordEvent(spans, current_span[q])
    /\ trace_calls' = RQ_Counted(q, 1, 0, 0)
    /\ total_tokens_in' = 0
    /\ total_tokens_out' = 0
    /\ llm_calls' = 0
    /\ lp_pc' = "call"
    /\ RQ_OrchFrame
    /\ RQ_LoopFrame
    /\ UNCHANGED <<ledgerVars, govVars>>

\* one pass of the loop: _call_llm (the timed_event span around
\* messages.create, then record_tokens and the llm_response event on the
\* request span), the accumulation, and when the response asks for a tool
\* its tool_call and tool_result events
RQ_CallLLM(q, usage, tool_use) ==
    /\ pm_pc[q] = "coordinating"
    /\ lp_pc = "call"
    /\ llm_calls < max_agent_iterations
    /\ LET root == current_span[q]
           timed == EndSpan(StartSpan(spans, q, root, "timed"), Len(spans) + 1)
           told == RecordEvent(RecordTokens(timed, root, usage.input_tokens,
                                            usage.output_tokens), root)
       IN spans' = IF tool_use THEN RecordEvent(RecordEvent(told, root), root) ELSE told
    /\ trace_calls' = RQ_Counted(q, IF tool_use THEN 3 ELSE 1, 1, 1)
    /\ total_tokens_in' = Accumulate(total_tokens_in, usage.input_tokens)
    /\ total_tokens_out' = Accumulate(total_tokens_out, usage.output_tokens)
    /\ llm_calls' = llm_calls + 1
    /\ lp_pc' = IF tool_use /\ llm_calls + 1 < max_agent_iterations THEN "call" ELSE "end"
    /\ RQ_OrchFrame
    /\ RQ_LoopFrame
    /\ UNCHANGED <<ledgerVars, govVars>>

\* messages.create raises inside the timed_event block: the exception
\* leaves process() and reaches the except branch of process_message
RQ_CallLLMRaises(q) ==
    /\ lp_pc = "call"
    /\ llm_calls < max_agent_iterations
    /\ PM_RaisesEffect(q, EndSpan(StartSpan(spans, q, current_span[q], "timed"),
                                  Len(spans) + 1))
    /\ trace_calls' = RQ_Counted(q, 0, 0, 1)
    /\ lp_pc' = "done"
    /\ RQ_LoopFrame
    /\ UNCHANGED <<total_tokens_in, total_tokens_out, llm_calls, ledgerVars, govVars>>

\* after the loop: the agent_end event and the AgentResponse carrying the
\* accumulated totals, then the success path of process_message
RQ_Returns(q) ==
    /\ lp_pc = "end"
    /\ pm_pc[q] = "coordinating"
    /\ conversation' = AddMessage(conversation, req_sid[q], "assistant")
    /\ metrics' = RecordAgentCall(metrics, req_sid[q], "coordinator",
                                  total_tokens_in, total_tokens_out, FALSE)
    /\ trace_state' = [trace_state EXCEPT ![q] = "closed"]
    /\ spans' = EndSpan(RecordEvent(RecordEvent(spans, current_span[q]), current_span[q]),
                        current_span[q])
    /\ current_span' = [current_span EXCEPT ![q] = 0]
    /\ trace_calls' = RQ_Counted(q, 2, 0, 0)
    /\ pm_result' = [pm_result EXCEPT ![q] = SuccessResult(total_tokens_in, total_tokens_out)]
    /\ pm_pc' = [pm_pc EXCEPT ![q] = "returned_ok"]
    /\ lp_pc' = "done"
    /\ RQ_LoopFrame
    /\ UNCHANGED <<total_tokens_in, total_tokens_out, llm_calls, mcVars, cv_last,
                   ledgerVars, govVars>>

NextRequest ==
    \/ \E q \in Reqs : RQ_Start(q)
    \/ \E q \in Reqs : RQ_Process(q)
    \/ \E q \in Reqs, u \in Usages, t \in BOOLEAN : RQ_CallLLM(q, u, t)
    \/ \E q \in Reqs : RQ_CallLLMRaises(q)
    \/ \E q \in Reqs : RQ_Returns(q)

SpecRequest == InitTrace /\ [][NextRequest]_vars

\* the entry of get_recent_traces that belongs to request q
TracesOfRequest(q) ==
    LET traces == GetRecentTraces(spans, DefaultTraceLimit)
    IN {traces[k] : k \in {j \in DOMAIN traces : spans[traces[j].trace_id].req = q}}

\* C38: for every completed request, the total_tokens_in and
\* total_tokens_out that get_recent_traces reports for its trace equal
\* tokens.in and tokens.out of the response process_message returned, that
\* is the sums over all model calls of the request.
TraceTotalsEqualResponseTokens ==
    \A q \in Reqs :
        pm_result[q].returned =>
            \A t \in TracesOfRequest(q) :
                /\ t.total_tokens_in = pm_result[q].tokens_in
                /\ t.total_tokens_out = pm_result[q].tokens_out

\* the requests on session s that process_message has returned from
ReturnedOn(s) ==
    {q \in Reqs : req_sid[q] = s /\ pm_pc[q] \in {"returned_ok", "returned_error"}}

\* C37: every process_message call that returns, on the success path or on
\* the error path, has appended exactly one user message followed by
\* exactly one assistant message: while no call is in progress on a session
\* its log holds two messages per returned call and its roles alternate
\* user, assistant.
EveryReturnedCallAppendsUserThenAssistant ==
    \A s \in Sessions :
        (\A q \in Reqs : req_sid[q] = s => pm_pc[q] # "coordinating") =>
            LET log == IF s \in DOMAIN conversation THEN conversation[s] ELSE <<>>
            IN /\ Len(log) = 2 * Cardinality(ReturnedOn(s))
               /\ \A i \in DOMAIN log :
                     log[i] = IF i % 2 = 1 THEN "user" ELSE "assistant"

(* ================= MetricsCollector.record_agent_call ================= *)
\* "with self._lock" entered regardless of who holds the lock
LockAvailable_Always == TRUE

\* threading.Lock: "with self._lock" is entered only while nobody holds it
LockAvailable == mc_lock = NoHolder

\* the agent names record_agent_call is given
MetricAgents == {"coordinator", "artist_discovery"}

CallsCompleted ==
    SumOver([s \in DOMAIN mc_done |-> mc_done[s].total_requests], DOMAIN mc_done)

CallsStarted == CallsCompleted + Cardinality({q \in Reqs : mc_pc[q] # "idle"})

\* a caller enters record_agent_call and takes the lock
MC_Acquire(q, session_id, agent_name, tokens_in, tokens_out, error) ==
    /\ mc_pc[q] = "idle"
    /\ CallsStarted < MaxCalls
    /\ LockAvailable
    /\ mc_lock' = q
    /\ mc_args' = [mc_args EXCEPT ![q] =
           [session_id |-> session_id, agent_name |-> agent_name,
            tokens_in |-> tokens_in, tokens_out |-> tokens_out, error |-> error]]
    /\ mc_pc' = [mc_pc EXCEPT ![q] = "locked"]
    /\ UNCHANGED <<ledgerVars, govVars, pm_pc, conversation, trace_state, metrics,
                   pm_result, spans, current_span, trace_calls, mc_local, mc_done,
                   cv_last, loopVars>>

\* get or create the session, and load the counters that the "+="
\* statements are about to update
MC_Read(q) ==
    /\ mc_pc[q] = "locked"
    /\ LET session_id == mc_args[q].session_id IN
       /\ metrics' = IF session_id \in DOMAIN metrics THEN metrics
                     ELSE DictPut(metrics, session_id, NewSessionMetrics)
       /\ mc_local' = [mc_local EXCEPT ![q] = metrics'[session_id]]
    /\ mc_pc' = [mc_pc EXCEPT ![q] = "read"]
    /\ UNCHANGED <<ledgerVars, govVars, pm_pc, conversation, trace_state,
                   pm_result, spans, current_span, trace_calls, mc_lock, mc_args,
                   mc_done, cv_last, loopVars>>

\* store the session counters: total_requests, total_tokens_in, total_tokens_out
MC_WriteSession(q) ==
    /\ mc_pc[q] = "read"
    /\ LET session_id == mc_args[q].session_id
           old == IF session_id \in DOMAIN metrics THEN metrics[session_id]
                  ELSE NewSessionMetrics
           new == [old EXCEPT
                     !.total_requests = mc_local[q].total_requests + 1,
                     !.total_tokens_in = mc_local[q].total_tokens_in + mc_args[q].tokens_in,
                     !.total_tokens_out = mc_local[q].total_tokens_out + mc_args[q].tokens_out]
       IN metrics' = DictPut(metrics, session_id, new)
    /\ mc_pc' = [mc_pc EXCEPT ![q] = "session_written"]
    /\ UNCHANGED <<ledgerVars, govVars, pm_pc, conversation, trace_state,
                   pm_result, spans, current_span, trace_calls, mc_lock, mc_args,
                   mc_local, mc_done, cv_last, loopVars>>

\* get or create the agent entry and store its counters
MC_WriteAgent(q) ==
    /\ mc_pc[q] = "session_written"
    /\ LET session_id == mc_args[q].session_id
           old == IF session_id \in DOMAIN metrics THEN metrics[session_id]
                  ELSE NewSessionMetrics
           agent == AgentAfterCall(AgentEntry(mc_local[q], mc_args[q].agent_name),
                                   mc_args[q].tokens_in, mc_args[q].tokens_out,
                                   mc_args[q].error)
           new == [old EXCEPT
                     !.agent_metrics = DictPut(@, mc_args[q].agent_name, agent)]
       IN metrics' = DictPut(metrics, session_id, new)
    /\ mc_pc' = [mc_pc EXCEPT ![q] = "agent_written"]
    /\ UNCHANGED <<ledgerVars, govVars, pm_pc, conversation, trace_state,
                   pm_result, spans, current_span, trace_calls, mc_lock, mc_args,
                   mc_local, mc_done, cv_last, loopVars>>

\* leave the "with self._lock" block and return
MC_Release(q) ==
    /\ mc_pc[q] = "agent_written"
    /\ mc_lock' = NoHolder
    /\ mc_done' = RecordAgentCall(mc_done, mc_args[q].session_id, mc_args[q].agent_name,
                                  mc_args[q].tokens_in, mc_args[q].tokens_out,
                                  mc_args[q].error)
    /\ mc_args' = [mc_args EXCEPT ![q] = NoMetricArgs]
    /\ mc_local' = [mc_local EXCEPT ![q] = NewSessionMetrics]
    /\ mc_pc' = [mc_pc EXCEPT ![q] = "idle"]
    /\ UNCHANGED <<ledgerVars, govVars, pm_pc, conversation, trace_state, metrics,
                   pm_result, spans, current_span, trace_calls, cv_last, loopVars>>

\* MetricsCollector.clear_session: the deletion under the lock
MC_ClearSession(session_id) ==
    /\ LockAvailable
    /\ session_id \in DOMAIN metrics
    /\ metrics' = ClearMetrics(metrics, session_id)
    /\ mc_done' = ClearMetrics(mc_done, session_id)
    /\ UNCHANGED <<ledgerVars, govVars, pm_pc, conversation, trace_state,
                   pm_result, spans, current_span, trace_calls, mc_pc, mc_lock,
                   mc_args, mc_local, cv_last, loopVars>>

InitMetrics ==
    /\ LedgerInit
    /\ GovInit
    /\ OrchInit
    /\ req_sid = [q \in Reqs |-> "s1"]
    /\ req_uid = [q \in Reqs |-> NoUser]
    /\ lp_agent = "artist_discovery"
    /\ LoopIdle

NextMetrics ==
    \/ \E q \in Reqs, s \in Sessions, i \in TokenCounts,
          o \in TokenCounts, e \in BOOLEAN :
          MC_Acquire(q, s, "coordinator", i, o, e)
    \/ \E q \in Reqs : MC_Read(q)
    \/ \E q \in Reqs : MC_WriteSession(q)
    \/ \E q \in Reqs : MC_WriteAgent(q)
    \/ \E q \in Reqs : MC_Release(q)

SpecMetrics == InitMetrics /\ [][NextMetrics]_vars

\* one caller issuing record_agent_call and clear_session one after another
NextMetricsSeq ==
    \/ \E s \in Sessions, g \in MetricAgents, i \in TokenCounts,
          o \in TokenCounts, e \in BOOLEAN :
          MC_Acquire("q1", s, g, i, o, e)
    \/ MC_Read("q1")
    \/ MC_WriteSession("q1")
    \/ MC_WriteAgent("q1")
    \/ MC_Release("q1")
    \/ \E s \in Sessions : MC_ClearSession(s)

SpecMetricsSeq == InitMetrics /\ [][NextMetricsSeq]_vars

\* sum of one counter over the agents of a session
AgentSum(session, field) ==
    SumOver([g \in DOMAIN session.agent_metrics |-> session.agent_metrics[g][field]],
            DOMAIN session.agent_metrics)

\* C27: record_agent_call is atomic with respect to concurrent callers: at
\* most one caller is inside it, whoever takes the lock finds the session
\* and agent counters of every session in step, and once all calls have
\* returned the stored counters are exactly the totals of the calls made.
RecordAgentCallAtomic ==
    /\ Cardinality({q \in Reqs : mc_pc[q] # "idle"}) <= 1
    /\ mc_lock = NoHolder =>
          \A s \in DOMAIN metrics :
              metrics[s].total_requests = AgentSum(metrics[s], "total_calls")
    /\ (\A q \in Reqs : mc_pc[q] = "idle") => metrics = mc_done

\* three calls have completed, two of them on the same session, one an error
ThreeCallsRecorded ==
    /\ \A q \in Reqs : mc_pc[q] = "idle"
    /\ CallsCompleted = MaxCalls
    /\ \E s \in DOMAIN mc_done :
          /\ mc_done[s].total_requests >= 2
          /\ AgentSum(mc_done[s], "error_count") = 1

\* C36: after any sequence of record_agent_call and clear_session calls,
\* every stored session has total_requests equal to the sum of its agents'
\* total_calls, total_tokens_in and total_tokens_out equal to the sums of
\* its agents' token totals, and every agent has 0 <= error_count <= total_calls.
SessionTotalsMatchAgents ==
    (\A q \in Reqs : mc_pc[q] = "idle") =>
        \A s \in DOMAIN metrics :
            /\ metrics[s].total_requests = AgentSum(metrics[s], "total_calls")
            /\ metrics[s].total_tokens_in = AgentSum(metrics[s], "total_tokens_in")
            /\ metrics[s].total_tokens_out = AgentSum(metrics[s], "total_tokens_out")
            /\ \A g \in DOMAIN metrics[s].agent_metrics :
                  /\ metrics[s].agent_metrics[g].error_count >= 0
                  /\ metrics[s].agent_metrics[g].error_count
                        <= metrics[s].agent_metrics[g].total_calls

\* no call is in progress and a session holds one call of each of two
\* agents, one of the two calls a failed one
TwoAgentsAfterClear ==
    /\ \A q \in Reqs : mc_pc[q] = "idle"
    /\ \E s \in DOMAIN metrics :
          /\ Cardinality(DOMAIN metrics[s].agent_metrics) = 2
          /\ AgentSum(metrics[s], "error_count") = 1
          /\ metrics[s].total_requests = 2

(* ========================= conversation memory ========================= *)
\* "limit or settings.conversation_history_limit": None and 0 are both falsy
EffectiveLimit(given, limit) ==
    IF given /\ limit # 0 THEN limit ELSE conversation_history_limit

\* the slice messages[-n:] of a Python list
SliceFromMinus(msgs, n) ==
    LET len == Len(msgs)
        start == IF n > 0 THEN (IF n >= len THEN 0 ELSE len - n)
                 ELSE (IF 0 - n >= len THEN len ELSE 0 - n)
    IN SubSeq(msgs, start + 1, len)

\* Conversation.get_recent_messages(limit)
GetRecentMessages(msgs, given, limit) == SliceFromMinus(msgs, EffectiveLimit(given, limit))

\* clear_conversation that only drops the latest message
ClearConversation_DropsLast(conv, conversation_id) ==
    IF conversation_id \in DOMAIN conv /\ conv[conversation_id] # <<>>
    THEN [conv EXCEPT ![conversation_id] = SubSeq(@, 1, Len(@) - 1)]
    ELSE conv

\* ConversationMemory.clear_conversation: del self._conversations[id]
ClearConversation(conv, conversation_id) == DictPop(conv, conversation_id)

LogOf(s) == IF s \in DOMAIN conversation THEN conversation[s] ELSE <<>>

ConvCall(op, s, given, limit, result) ==
    [op |-> op, sid |-> s, given |-> given, limit |-> limit,
     before |-> LogOf(s), result |-> result]

\* ConversationMemory.add_user_message / add_assistant_message called
\* outside any request (record_event finds no current span)
CV_AddMessage(s, role) ==
    /\ Len(LogOf(s)) < MaxMessages
    /\ conversation' = AddMessage(conversation, s, role)
    /\ cv_last' = [NoConvCall EXCEPT !.op = "add", !.sid = s]
    /\ UNCHANGED <<ledgerVars, govVars, pm_pc, trace_state, metrics, pm_result, spans,
                   current_span, trace_calls, mcVars, loopVars>>

\* Conversation.get_recent_messages, with or without a limit
CV_GetRecentMessages(s, given, limit) ==
    /\ s \in DOMAIN conversation
    /\ cv_last' = ConvCall("read", s, given, limit,
                           GetRecentMessages(conversation[s], given, limit))
    /\ UNCHANGED <<ledgerVars, govVars, pm_pc, conversation, trace_state, metrics,
                   pm_result, spans, current_span, trace_calls, mcVars, loopVars>>

\* ConversationMemory.clear_conversation
CV_ClearConversation(s) ==
    /\ conversation' = ClearConversation(conversation, s)
    /\ cv_last' = ConvCall("clear", s, FALSE, 0, <<>>)
    /\ UNCHANGED <<ledgerVars, govVars, pm_pc, trace_state, metrics, pm_result, spans,
                   current_span, trace_calls, mcVars, loopVars>>

Limits == 0..(MaxMessages + 1)

Roles == {"user", "assistant"}

\* the request whose process_message call runs next to the direct calls
ConvReqs == {"q1"}

InitConv ==
    /\ LedgerInit
    /\ GovInit
    /\ OrchInit
    /\ req_sid = [q \in Reqs |-> "s1"]
    /\ req_uid = [q \in Reqs |-> NoUser]
    /\ lp_agent = "artist_discovery"
    /\ LoopIdle

NextConv ==
    \/ \E s \in Sessions, role \in Roles : CV_AddMessage(s, role)
    \/ \E s \in Sessions, given \in BOOLEAN, limit \in Limits :
          CV_GetRecentMessages(s, given, limit)
    \/ \E s \in Sessions : CV_ClearConversation(s)
    \/ \E q \in ConvReqs : PM_Start(q)
    \/ \E q \in ConvReqs : PM_CoordinatorReturns(q, 1, 1)
    \/ \E q \in ConvReqs : PM_CoordinatorRaises(q)

SpecConv == InitConv /\ [][NextConv]_vars

\* the last n elements of a sequence, all of them when it has fewer
LastN(seq, n) ==
    SubSeq(seq, (IF n >= Len(seq) THEN 0 ELSE Len(seq) - n) + 1, Len(seq))

\* C28: get_recent_messages(limit) returns the last `limit` messages in
\* insertion order (all when there are fewer) for every limit given, and
\* the last conversation_history_limit messages when no limit is given.
RecentMessagesAreTheLastLimit ==
    cv_last.op = "read" =>
        cv_last.result =
            LastN(cv_last.before,
                  IF cv_last.given THEN cv_last.limit ELSE conversation_history_limit)

IsPrefix(a, b) == Len(a) <= Len(b) /\ SubSeq(b, 1, Len(a)) = a

\* C29: a conversation's log only grows: every step leaves the messages
\* already in a log in place and in order, possibly with new ones after
\* them, except a clear_conversation step, which removes the whole log of
\* the conversation it is called on.
LogAppendOnlyUnlessCleared ==
    [][ \A s \in DOMAIN conversation :
          \/ s \in DOMAIN conversation' /\ IsPrefix(conversation[s], conversation'[s])
          \/ /\ s \notin DOMAIN conversation'
             /\ cv_last'.op = "clear"
             /\ CV_ClearConversation(s) ]_vars

\* a conversation holding several messages has just been cleared while the
\* other conversation still has its messages
ConversationCleared ==
    /\ cv_last.op = "clear"
    /\ Len(cv_last.before) >= 2
    /\ cv_last.sid \notin DOMAIN conversation
    /\ \E s \in DOMAIN conversation : Len(conversation[s]) >= 2

\* C30: every pass of the loop issues exactly one model call: the calls
\* issued number `iteration` before the call of a pass and `iteration + 1`
\* after it; and the `iterations` value that process() returns equals the
\* number of model calls issued, which is at least 1 and at most
\* max_agent_iterations.
IterationsEqualModelCalls ==
    /\ lp_pc = "call" => llm_calls = iteration
    /\ lp_pc \in {"tools", "end"} => llm_calls = iteration + 1
    /\ lp_result.returned =>
          /\ lp_result.iterations = llm_calls
          /\ lp_result.iterations = Len(llm_log)
          /\ lp_result.iterations >= 1
          /\ lp_result.iterations <= max_agent_iterations

\* process() returned after a run of max_agent_iterations passes whose
\* first pass executed tools
ReturnedAfterEveryPass ==
    /\ lp_result.returned
    /\ lp_result.iterations = max_agent_iterations
    /\ llm_calls > 1
    /\ tool_log # <<>>

(* ========================= events of an agent run ====================== *)
EventNames == {events[i] : i \in DOMAIN events}

\* C31: every agent_start event of a run is eventually followed by an
\* agent_end event, however the run ends (final answer, iteration cap, model
\* call failure), and every tool_call event is immediately followed by a
\* tool_result event.
AgentRunBracketed ==
    /\ ("agent_start" \in EventNames) ~> ("agent_end" \in EventNames)
    /\ [](\A i \in DOMAIN events :
            events[i] = "tool_call" =>
                i < Len(events) /\ events[i + 1] = "tool_result")

(* ===================== the run against the wall clock ================== *)
LoopRunning == lp_pc \in {"call", "tools", "end"}

\* a second of wall-clock time passes while process() runs
LP_Tick ==
    /\ LoopRunning
    /\ elapsed <= max_execution_seconds
    /\ elapsed' = elapsed + 1
    /\ UNCHANGED <<ledgerVars, govVars, orchVars, lp_agent, lp_pc, iteration, messages,
                   response, tool_calls, tool_results, total_tokens_in,
                   total_tokens_out, llm_calls, last_request, tool_log, llm_log,
                   events, lp_error, lp_result, call_times>>

NextLoopClock == NextLoop \/ LP_Tick

SpecLoopClock == InitLoop /\ [][NextLoopClock]_vars

\* C32: once max_execution_seconds has elapsed no further model call is
\* issued: every model call of a run was issued before the deadline.
NoModelCallAfterDeadline ==
    \A k \in DOMAIN call_times : call_times[k] < max_execution_seconds

(* ========================= the agent-scope counter ===================== *)
\* C33: reserve_tokens and release_reservation never change an agent
\* counter, and a commit_usage call adds exactly actual_tokens (not the
\* difference to the reserved amount) to the counter of the agent it names
\* and nothing to any other, so each agent counter is the sum of the
\* actual_tokens committed for that agent.
AgentCounterTracksCommits ==
    [][ /\ (last'.op \in {"reserve", "release"} /\ ncalls' # ncalls) =>
              agent_usage' = agent_usage
        /\ \A r \in ResIds, a \in Amounts, s \in Sessions, u \in UserArgs, g \in AgentArgs :
              (last'.op = "commit" /\ last'.rid = r /\ ncalls' # ncalls
                 /\ commit_usage(r, a, s, u, g)) =>
                 /\ \A x \in Agents :
                       Get(agent_usage', x) = Get(agent_usage, x) + (IF x = g THEN a ELSE 0)
                 /\ g = NoAgent => agent_usage' = agent_usage ]_vars

\* the first call after a reservation of one token committed one actual
\* token for an agent: the difference is 0, the agent counter is 1
AgentChargedWithActualTokens ==
    /\ last.op = "commit"
    /\ last.found
    /\ ~last.settled
    /\ ncalls = 2
    /\ global_usage = 1
    /\ Get(agent_usage, "artist_discovery") = 1

(* ============================ alert-only mode ========================== *)
\* C34: with enforce=False check_budget allows every request in every
\* state; with enabled=False it allows it without reading any scope's
\* counter and without calling a rate limiter.
AlertOnlyNeverDenies ==
    [][ (last'.op = "check_budget" /\ ncalls' # ncalls) =>
          /\ ~enforce => last'.verdict = "ok"
          /\ ~enabled =>
                /\ last'.verdict = "ok"
                /\ last'.acquires = 0
                /\ UNCHANGED <<global_usage, session_usage, user_usage, agent_usage,
                               reservations>> ]_vars

\* an alert-only controller allowed a request that exceeds the global cap
\* and found the request rate limiter full
AllowedOverCapInAlertMode ==
    /\ enabled
    /\ ~enforce
    /\ last.op = "check_budget"
    /\ last.verdict = "ok"
    /\ last.acquires = 1
    /\ global_usage + last.amount > global_daily_tokens

(* ====================== delivery of tool results ======================= *)
\* C35: every tool executed during a run has its result delivered to the
\* model: when the run has returned, each execution made after model call k
\* was followed by a model call k+1 whose message list carries its result.
EveryToolResultDelivered ==
    lp_pc = "done" =>
        \A k \in DOMAIN tool_log :
            /\ llm_calls > tool_log[k].call
            /\ FedBack(last_request, tool_log[k])

(* ===================== AgentOrchestrator.clear_session ================== *)
\* dict() with no entries
EmptyDict == <<>>

\* SessionMetrics.to_dict
SessionToDict(session) ==
    [total_requests |-> session.total_requests,
     total_tokens_in |-> session.total_tokens_in,
     total_tokens_out |-> session.total_tokens_out,
     total_tokens |-> session.total_tokens_in + session.total_tokens_out,
     agents |-> session.agent_metrics]

\* MetricsCollector.get_session_summary
GetSessionSummary(m, session_id) ==
    IF session_id \notin DOMAIN m THEN EmptyDict ELSE SessionToDict(m[session_id])

\* AgentOrchestrator.get_conversation_history: the roles of the stored messages
GetConversationHistory(conv, session_id) ==
    IF session_id \notin DOMAIN conv THEN <<>> ELSE conv[session_id]

\* AgentOrchestrator.clear_session: clear_conversation, then metrics.clear_session
CS_ClearSession(session_id) ==
    /\ conversation' = ClearConversation(conversation, session_id)
    /\ metrics' = ClearMetrics(metrics, session_id)
    /\ cv_last' = ConvCall("clear", session_id, FALSE, 0, <<>>)
    /\ UNCHANGED <<ledgerVars, govVars, pm_pc, trace_state, pm_result, spans,
                   current_span, trace_calls, mcVars, loopVars>>

NextSession ==
    \/ \E q \in Reqs : PM_Start(q)
    \/ \E q \in Reqs, i \in TokenCounts, o \in TokenCounts : PM_CoordinatorReturns(q, i, o)
    \/ \E q \in Reqs : PM_CoordinatorRaises(q)
    \/ \E s \in Sessions : CS_ClearSession(s)

SpecSession == InitTrace /\ [][NextSession]_vars

\* the history and the metrics summary of session t are what they were
SessionUntouched(t) ==
    /\ GetConversationHistory(conversation', t) = GetConversationHistory(conversation, t)
    /\ GetSessionSummary(metrics', t) = GetSessionSummary(metrics, t)

\* C39: sessions are isolated: a step of process_message on session s and
\* clear_session(s) change the conversation log and the metrics of no
\* session other than s, and right after clear_session(s) the history and
\* the metrics summary of s are empty.
SessionsIsolated ==
    [][ \A s \in Sessions :
          /\ (\E q \in Reqs : req_sid[q] = s /\ pm_pc'[q] # pm_pc[q]) =>
                \A t \in Sessions \ {s} : SessionUntouched(t)
          /\ (cv_last'.op = "clear" /\ cv_last'.sid = s /\ CS_ClearSession(s)) =>
                /\ GetConversationHistory(conversation', s) = <<>>
                /\ GetSessionSummary(metrics', s) = EmptyDict
                /\ \A t \in Sessions \ {s} : SessionUntouched(t) ]_vars

\* clear_session has just emptied a session that held messages and metrics
\* while another session holds a conversation and metrics of its own
ClearedBesideLiveSession ==
    /\ cv_last.op = "clear"
    /\ cv_last.before # <<>>
    /\ cv_last.sid \notin DOMAIN conversation
    /\ cv_last.sid \notin DOMAIN metrics
    /\ \E t \in Sessions \ {cv_last.sid} :
          /\ Len(GetConversationHistory(conversation, t)) = 2
          /\ t \in DOMAIN metrics

====
